---------------------------- MODULE Spec2Model ----------------------------
(***************************************************************************)
(* Lyric-to-tree grouping of the Mindstrike repository.                    *)
(*                                                                         *)
(* A string is a sequence of one-character strings, so that normalisation, *)
(* trimming, splitting and the discourse regular expression are computed   *)
(* character by character, as the JavaScript does.  JavaScript indices are *)
(* 0-based; sequence positions here are 1-based, and every index that the  *)
(* code stores in an object (idx, start, end) keeps its 0-based value.     *)
(***************************************************************************)
EXTENDS Integers, Sequences, FiniteSets, TLC

(***************************************************************************)
(* State.  lyrics: the argument of a builder; rawLines and lines: the       *)
(* locals of the call, kept for inspection; mindmap: the tree               *)
(* buildMindmapTree returned; generated: a builder has returned;            *)
(* lyricLines: the argument of findRepeatedBlocks; repeatedBlocks: its      *)
(* result; branching: the tree buildBranchingMindmapTree returned;          *)
(* variant: the function that ran ("hybrid" for buildMindmapTree,           *)
(* "mindmap" and "skills" for the file of buildBranchingMindmapTree or      *)
(* findRepeatedBlocks, or the name of the line function).  theLine and      *)
(* markerList0: the arguments line and markerList of normalizeLine and      *)
(* isDiscourseMarkerLine; normLine and detected: the normalized line and    *)
(* the detection result.  history: the calls made so far, each with its     *)
(* text and the tree it returned.  pc and stack: the position of a call of  *)
(* buildMindmapTree followed step by step ("idle", "running", "returned"   *)
(* or "raised") and the calls of buildHybridTree not yet made, each with   *)
(* its argument; pc is also "returned" or "raised" after one call of       *)
(* parseLyricsToNodes, whose nodes are kept in lines.  lastType and        *)
(* streak: the fields of a ComboManager; cooldown, lastUsed and remaining:  *)
(* the fields of a Skill.  For these two objects history holds the method  *)
(* calls made so far, each with its argument and what it did.              *)
(***************************************************************************)
VARIABLES lyrics, rawLines, lines, mindmap, generated,
          lyricLines, repeatedBlocks, branching, variant,
          theLine, markerList0, normLine, detected, history, pc, stack,
          lastType, streak, cooldown, lastUsed, remaining

vars == << lyrics, rawLines, lines, mindmap, generated,
           lyricLines, repeatedBlocks, branching, variant,
           theLine, markerList0, normLine, detected, history, pc, stack,
           lastType, streak, cooldown, lastUsed, remaining >>

buildVars == << lyrics, rawLines, lines, mindmap, generated,
                lyricLines, repeatedBlocks, branching >>

lineVars == << theLine, markerList0, normLine, detected >>

callVars == << pc, stack >>

comboVars == << lastType, streak >>

skillVars == << cooldown, lastUsed, remaining >>

gameVars == << comboVars, skillVars >>

(***************************************************************************)
(* Characters and strings                                                  *)
(***************************************************************************)
NL == "\n"
CR == "\r"

UpperLetters == <<"A","B","C","D","E","F","G","H","I","J","K","L","M",
                  "N","O","P","Q","R","S","T","U","V","W","X","Y","Z">>
LowerLetters == <<"a","b","c","d","e","f","g","h","i","j","k","l","m",
                  "n","o","p","q","r","s","t","u","v","w","x","y","z">>
Digits == {"0","1","2","3","4","5","6","7","8","9"}

Range(s) == { s[i] : i \in DOMAIN s }

\* a sequence given by a rule, computed once (Array.prototype.map builds its
\* result eagerly)
Strict(s) == SubSeq(s, 1, Len(s))

\* the lower-case letter of each upper-case letter
LowerOf ==
    ("A" :> "a") @@ ("B" :> "b") @@ ("C" :> "c") @@ ("D" :> "d") @@ ("E"
    :> "e") @@ ("F" :> "f") @@ ("G" :> "g") @@ ("H" :> "h") @@ ("I" :>
    "i") @@ ("J" :> "j") @@ ("K" :> "k") @@ ("L" :> "l") @@ ("M" :> "m")
    @@ ("N" :> "n") @@ ("O" :> "o") @@ ("P" :> "p") @@ ("Q" :> "q") @@
    ("R" :> "r") @@ ("S" :> "s") @@ ("T" :> "t") @@ ("U" :> "u") @@ ("V"
    :> "v") @@ ("W" :> "w") @@ ("X" :> "x") @@ ("Y" :> "y") @@ ("Z" :>
    "z")

\* String.prototype.toLowerCase, one character
toLowerChar(c) == IF c \in DOMAIN LowerOf THEN LowerOf[c] ELSE c

toLowerCase(s) == Strict([ i \in DOMAIN s |-> toLowerChar(s[i]) ])

\* mutant: the hyphen kept as well
IsKeptCharOrHyphen(c) ==
    c \in Range(UpperLetters) \cup Range(LowerLetters) \cup Digits \cup {"'", " ", "-"}

\* the class [a-zA-Z0-9' ] of normalizeLine's regular expression
KeptChars ==
    Range(UpperLetters) \cup Range(LowerLetters) \cup Digits \cup {"'", " "}

IsKeptChar(c) == c \in KeptChars

\* \s of the regular expressions and of String.prototype.trim
IsSpace(c) == c \in {" ", "\t", NL, CR}

RECURSIVE trimLeft(_)
trimLeft(s) ==
    IF s # <<>> /\ IsSpace(Head(s)) THEN trimLeft(Tail(s)) ELSE s

RECURSIVE trimRight(_)
trimRight(s) ==
    IF s # <<>> /\ IsSpace(s[Len(s)])
    THEN trimRight(SubSeq(s, 1, Len(s) - 1))
    ELSE s

\* String.prototype.trim
trim(s) == trimRight(trimLeft(s))

\* String.prototype.split on a single separator character (the \r of
\* /\r?\n/ is dropped from the end of a piece)
RECURSIVE splitOn(_, _, _)
splitOn(s, sep, cur) ==
    IF s = <<>> THEN << cur >>
    ELSE IF Head(s) = sep THEN << cur >> \o splitOn(Tail(s), sep, <<>>)
    ELSE splitOn(Tail(s), sep, Append(cur, Head(s)))

dropCR(s) ==
    IF s # <<>> /\ s[Len(s)] = CR THEN SubSeq(s, 1, Len(s) - 1) ELSE s

\* lyrics.split(/\r?\n/)
splitLines(text) ==
    LET raw == splitOn(text, NL, <<>>)
    IN  Strict([ i \in DOMAIN raw |-> IF i < Len(raw) THEN dropCR(raw[i]) ELSE raw[i] ])

\* s.split(/\s+/): the pieces between maximal runs of white space
RECURSIVE splitWords(_, _)
splitWords(s, cur) ==
    IF s = <<>> THEN << cur >>
    ELSE IF IsSpace(Head(s))
         THEN << cur >> \o splitWords(trimLeft(s), <<>>)
         ELSE splitWords(Tail(s), Append(cur, Head(s)))

\* label.trim().split(/\s+/)
words(s) == splitWords(trim(s), <<>>)

\* Array.prototype.join
RECURSIVE join(_, _)
join(parts, sep) ==
    IF parts = <<>> THEN <<>>
    ELSE IF Len(parts) = 1 THEN parts[1]
    ELSE parts[1] \o sep \o join(Tail(parts), sep)

\* Array.prototype.slice(from) and slice(0, to), 0-based as in the code
sliceFrom(a, from) == SubSeq(a, from + 1, Len(a))
sliceTo(a, to) == SubSeq(a, 1, IF to < Len(a) THEN to ELSE Len(a))

\* line.replace(/[^a-zA-Z0-9' ]+/g, '').trim().toLowerCase()
normalizeLine(line) == toLowerCase(trim(SelectSeq(line, IsKeptChar)))


(***************************************************************************)
(* Discourse Detector                                                      *)
(***************************************************************************)
DISCOURSE_MARKERS ==
    << <<"n","a">>, <<"l","a">>, <<"o","h">>, <<"y","e","a","h">>,
       <<"w","o","a","h">>, <<"h","e","y">>, <<"u","h">>, <<"w","o","o">>,
       <<"h","a">>, <<"m","m">> >>

startsWith(s, p) == Len(s) >= Len(p) /\ SubSeq(s, 1, Len(p)) = p

\* mutant: the end anchor forgotten
reTestPrefix(s, marker) == startsWith(toLowerCase(s), toLowerCase(marker))

\* the expression ^(marker[ -]?)+$ on strings already in one case: one or more
\* repetitions of the marker, each optionally followed by one space or hyphen,
\* and nothing else
RECURSIVE reMatch(_, _)
reMatch(s, marker) ==
    /\ startsWith(s, marker)
    /\ LET rest == sliceFrom(s, Len(marker))
       IN  \/ rest = <<>>
           \/ reMatch(rest, marker)
           \/ /\ Head(rest) \in {" ", "-"}
              /\ \/ Tail(rest) = <<>>
                 \/ reMatch(Tail(rest), marker)

\* new RegExp(`^(${marker}[ -]?)+$`, "i").test(s)
reTest(s, marker) == reMatch(toLowerCase(s), toLowerCase(marker))

\* mutant: the words of the line counted, not the matches of the marker
matchCountWords(s, marker) == Len(words(s))

\* the matches of the marker found scanning left to right, each search
\* resuming after the previous match, on strings already in one case
RECURSIVE matchesIn(_, _)
matchesIn(s, marker) ==
    IF Len(s) < Len(marker) THEN 0
    ELSE IF startsWith(s, marker)
         THEN 1 + matchesIn(sliceFrom(s, Len(marker)), marker)
         ELSE matchesIn(Tail(s), marker)

\* (s.match(new RegExp(marker, "gi")) || []).length
matchCount(s, marker) == matchesIn(toLowerCase(s), toLowerCase(marker))

NoMatch == [found |-> FALSE, marker |-> <<>>, count |-> 0]

\* the for loop over markerList, from position k on
RECURSIVE firstMarker(_, _, _)
firstMarker(norm, markerList, k) ==
    IF k > Len(markerList) THEN NoMatch
    ELSE IF reTest(norm, markerList[k])
         THEN [found |-> TRUE, marker |-> markerList[k],
               count |-> matchCount(norm, markerList[k])]
         ELSE firstMarker(norm, markerList, k + 1)

isDiscourseMarkerLine(line, markerList) ==
    firstMarker(normalizeLine(line), markerList, 1)

(***************************************************************************)
(* Line filtering and classification (the head of every tree builder)      *)
(***************************************************************************)

\* l.match(/^\[.*\]$/): '.' matches no line terminator
IsTagLine(l) ==
    /\ Len(l) >= 2
    /\ l[1] = "["
    /\ l[Len(l)] = "]"
    /\ \A i \in DOMAIN l : l[i] \notin {NL, CR}

\* mutant: the bracket-tag filter forgotten
keepLineNoTag(l) == l # <<>>
keepLine(l) == l # <<>> /\ ~IsTagLine(l)

\* lyrics.split(/\r?\n/).map(l => l.trim()).filter(l => l && !l.match(/^\[.*\]$/))
rawLinesOf(text) ==
    LET ls == splitLines(text)
    IN  SelectSeq(Strict([ i \in DOMAIN ls |-> trim(ls[i]) ]), keepLine)

\* mutant: the while loop never entered
runEndAtOnce(raw, marker, j) == j
\* the while loop: first position from j on whose line does not match marker
RECURSIVE runEnd(_, _, _)
runEnd(raw, marker, j) ==
    IF j <= Len(raw) /\ isDiscourseMarkerLine(raw[j], << marker >>).found
    THEN runEnd(raw, marker, j + 1)
    ELSE j

RECURSIVE runCount(_, _, _, _)
runCount(raw, marker, from, to) ==
    IF from >= to THEN 0
    ELSE isDiscourseMarkerLine(raw[from], << marker >>).count
         + runCount(raw, marker, from + 1, to)

(***************************************************************************)
(* Nodes.  A JavaScript object is a record with every field present; a     *)
(* field the object lacks holds the Absent value of its kind (type "",     *)
(* count 0, idx -1, hasChildren FALSE).  cover is a history field the code *)
(* does not have: the 0-based positions in rawLines the node stands for.   *)
(***************************************************************************)
mkNode(type, label, big, count, idx, hasChildren, children, cover) ==
    [type |-> type, label |-> label, big |-> big, count |-> count, idx |-> idx,
     hasChildren |-> hasChildren, children |-> children, cover |-> cover]

\* { type: "discourse", label: dm.marker, big: true, count, idx: i }
discourseNode(marker, count, i, j) ==
    mkNode("discourse", marker, TRUE, count, i, FALSE, <<>>, i .. (j - 1))

\* { type: "lyric", label: rawLines[i], idx: i }
lyricNode(text, i) ==
    mkNode("lyric", text, FALSE, 0, i, FALSE, <<>>, {i})

\* { label: suffix }
suffixNode(suffix, cover) ==
    mkNode("", suffix, FALSE, 0, -1, FALSE, <<>>, cover)

\* { label: stem, children }
stemNode(stem, children) ==
    mkNode("", stem, FALSE, 0, -1, TRUE, children, {})

\* the classification loop, from 1-based position p of rawLines on
RECURSIVE classifyFrom(_, _)
classifyFrom(raw, p) ==
    IF p > Len(raw) THEN <<>>
    ELSE LET dm == isDiscourseMarkerLine(raw[p], DISCOURSE_MARKERS)
         IN  IF dm.found
             THEN LET j == runEnd(raw, dm.marker, p + 1)
                      count == dm.count + runCount(raw, dm.marker, p + 1, j)
                  IN  << discourseNode(dm.marker, count, p - 1, j - 1) >>
                      \o classifyFrom(raw, j)
             ELSE << lyricNode(raw[p], p - 1) >>
                  \o classifyFrom(raw, p + 1)

\* mutant: the list the call before filled is filled further
linesOfLastCall == lines
\* const lines = []: a list of the call's own
newLines == <<>>

classifyLines(raw) == newLines \o classifyFrom(raw, 1)

(***************************************************************************)
(* Stem Grouper (groupByStem of the hybrid builder)                        *)
(***************************************************************************)
minCount == 2
\* mutant: one-word stems tried as well
stemWindowOne == << 3, 2, 1 >>
\* mutant: the shorter stem tried first
stemWindowShortFirst == << 2, 3 >>
stemWindow == << 3, 2 >>
EmptySuffix == << "(", ".", ".", ".", ")" >>

\* node.type === "lyric" && words.length >= stemLen
hasStemOfLen(node, stemLen) ==
    node.type = "lyric" /\ Len(words(node.label)) >= stemLen

\* words.slice(0, stemLen).join(" ").toLowerCase()
stemKey(node, stemLen) ==
    toLowerCase(join(sliceTo(words(node.label), stemLen), << " " >>))

\* the keys of stemGroups in insertion order (Object.entries order: a stem
\* has two or more words, so no key is an array index)
RECURSIVE stemKeysFrom(_, _, _, _)
stemKeysFrom(nodes, stemLen, p, acc) ==
    IF p > Len(nodes) THEN acc
    ELSE IF hasStemOfLen(nodes[p], stemLen)
            /\ stemKey(nodes[p], stemLen) \notin Range(acc)
         THEN stemKeysFrom(nodes, stemLen, p + 1,
                           Append(acc, stemKey(nodes[p], stemLen)))
         ELSE stemKeysFrom(nodes, stemLen, p + 1, acc)

\* stemGroups[stem]: the positions pushed for the stem, ascending
RECURSIVE idxArrFrom(_, _, _, _)
idxArrFrom(nodes, stemLen, stem, p) ==
    IF p > Len(nodes) THEN <<>>
    ELSE IF hasStemOfLen(nodes[p], stemLen) /\ stemKey(nodes[p], stemLen) = stem
         THEN << p >> \o idxArrFrom(nodes, stemLen, stem, p + 1)
         ELSE idxArrFrom(nodes, stemLen, stem, p + 1)

\* idxArr.length >= minCount && idxArr.length < nodes.length
\* mutant: the "not all lines" test forgotten
stemIsValidAll(n, total) == n >= minCount
stemIsValid(n, total) == n >= minCount /\ n < total

validStems(nodes, stemLen) ==
    LET ok(stem) == stemIsValid(Len(idxArrFrom(nodes, stemLen, stem, 1)), Len(nodes))
    IN  SelectSeq(stemKeysFrom(nodes, stemLen, 1, <<>>), ok)

\* let suffix = words.slice(stemLen).join(" "); if (!suffix) suffix = "(...)"
suffixOf(node, stemLen) ==
    LET suffix == join(sliceFrom(words(node.label), stemLen), << " " >>)
    IN  IF suffix = <<>> THEN EmptySuffix ELSE suffix

\* mutant: no suffix counts as seen
suffixSeenNever(seen, normSuffix) == FALSE
\* seen.has(normSuffix)
suffixSeen(seen, normSuffix) == normSuffix \in seen

\* the idxArr.forEach building children, with the seen set of normalized suffixes
RECURSIVE stemChildren(_, _, _, _, _)
stemChildren(nodes, stemLen, idxArr, k, seen) ==
    IF k > Len(idxArr) THEN <<>>
    ELSE LET node == nodes[idxArr[k]]
             suffix == suffixOf(node, stemLen)
             normSuffix == normalizeLine(suffix)
         IN  IF ~suffixSeen(seen, normSuffix)
             THEN << IF node.hasChildren
                     THEN [suffixNode(suffix, node.cover) EXCEPT
                             !.hasChildren = TRUE, !.children = node.children]
                     ELSE suffixNode(suffix, node.cover) >>
                  \o stemChildren(nodes, stemLen, idxArr, k + 1,
                                  seen \cup {normSuffix})
             ELSE stemChildren(nodes, stemLen, idxArr, k + 1, seen)

\* mutant: only lyric nodes are pushed back
unusedLyricOnly(nodes, used) ==
    LET ps == SelectSeq([ i \in DOMAIN nodes |-> i ],
                        LAMBDA i : i \notin used /\ nodes[i].type = "lyric")
    IN  Strict([ k \in DOMAIN ps |-> nodes[ps[k]] ])

\* the nodes.forEach pushing the nodes no valid stem used
unusedNodes(nodes, used) ==
    LET ps == SelectSeq([ i \in DOMAIN nodes |-> i ],
                        LAMBDA i : i \notin used
                                   /\ nodes[i].type \in {"lyric", "discourse"})
    IN  Strict([ k \in DOMAIN ps |-> nodes[ps[k]] ])

\* the body of "if (validStems.length > 0)" for one stemLen
groupWith(nodes, stemLen, stems) ==
    LET idxOf(k) == idxArrFrom(nodes, stemLen, stems[k], 1)
        parents == Strict([ k \in DOMAIN stems |->
                       stemNode(stems[k],
                                stemChildren(nodes, stemLen, idxOf(k), 1, {})) ])
        used == UNION { Range(idxOf(k)) : k \in DOMAIN stems }
    IN  parents \o unusedNodes(nodes, used)

\* the for loop over stemWindow, from position w on
RECURSIVE groupFrom(_, _)
groupFrom(nodes, w) ==
    IF w > Len(stemWindow) THEN nodes
    ELSE LET stems == validStems(nodes, stemWindow[w])
         IN  IF Len(stems) > 0
             THEN groupWith(nodes, stemWindow[w], stems)
             ELSE groupFrom(nodes, w + 1)

groupByStem(nodes) ==
    IF Len(nodes) <= 1 THEN nodes ELSE groupFrom(nodes, 1)

RECURSIVE buildHybridTree(_)
buildHybridTree(nodes) ==
    IF Len(nodes) = 0 THEN <<>>
    ELSE LET grouped == groupByStem(nodes)
         IN  Strict([ k \in DOMAIN grouped |->
                 IF grouped[k].hasChildren
                 THEN [grouped[k] EXCEPT
                         !.children = buildHybridTree(grouped[k].children)]
                 ELSE grouped[k] ])

SongTitle == << "S", "o", "n", "g" >>

\* let title = "Song"; for (const l of lines) if (l.type === "lyric") { title = l.label; break; }
firstLyricTitle(ls) ==
    IF \E p \in DOMAIN ls : ls[p].type = "lyric"
    THEN ls[CHOOSE p \in DOMAIN ls :
              /\ ls[p].type = "lyric"
              /\ \A q \in 1 .. (p - 1) : ls[q].type # "lyric"].label
    ELSE SongTitle

\* one call of buildMindmapTree: its locals rawLines and lines, and the tree
\* it returns
runBuildMindmapTree(text) ==
    LET raw == rawLinesOf(text)
        ls == classifyLines(raw)
    IN  [rawLines |-> raw, lines |-> ls,
         tree |-> IF Len(raw) = 0
                  THEN [label |-> SongTitle, children |-> <<>>]
                  ELSE [label |-> firstLyricTitle(ls),
                        children |-> buildHybridTree(ls)]]

buildMindmapTree(text) == runBuildMindmapTree(text).tree

(***************************************************************************)
(* The banded builder (buildMindmapTree of part_001): the same             *)
(* classification and stem loop; the children of a stem node are cut into  *)
(* bands of ceil(sqrt(n)) nodes, and two or more bands are wrapped in band  *)
(* nodes whose label is null.                                              *)
(***************************************************************************)
\* the value null of a label: no string, a string being a sequence of
\* one-character strings
NullLabel == << "null" >>

\* { label: null, isBand: true, children: bandArr }
bandNode(bandArr) ==
    [type |-> "", label |-> NullLabel, big |-> FALSE, count |-> 0, idx |-> -1,
     hasChildren |-> TRUE, children |-> bandArr,
     cover |-> UNION { bandArr[k].cover : k \in DOMAIN bandArr },
     isBand |-> TRUE]

\* node.isBand, undefined (falsy) on a node without the field
isBand(node) == "isBand" \in DOMAIN node /\ node.isBand

\* Math.ceil(Math.sqrt(n))
ceilSqrt(n) == CHOOSE h \in 0 .. n : h * h >= n /\ \A g \in 0 .. (h - 1) : g * g < n

\* for (let i = 0; i < children.length; i += bandHeight)
\*     bands.push(children.slice(i, i + bandHeight)), from 0-based position i on
RECURSIVE bandsFrom(_, _, _)
bandsFrom(children, bandHeight, i) ==
    IF i >= Len(children) THEN <<>>
    ELSE LET hi == IF i + bandHeight > Len(children) THEN Len(children)
                   ELSE i + bandHeight
         IN  << SubSeq(children, i + 1, hi) >>
             \o bandsFrom(children, bandHeight, hi)

\* the banding of one stem's children and the push of its stem node
banded(stem, children) ==
    LET bands == bandsFrom(children, ceilSqrt(Len(children)), 0)
        bandNodes == Strict([ b \in DOMAIN bands |-> bandNode(bands[b]) ])
    IN  IF Len(bandNodes) = 1
        THEN stemNode(stem, bands[1])
        ELSE stemNode(stem, bandNodes)

\* the body of "if (validStems.length > 0)" for one stemLen
groupWith_part_001(nodes, stemLen, stems) ==
    LET idxOf(k) == idxArrFrom(nodes, stemLen, stems[k], 1)
        parents == Strict([ k \in DOMAIN stems |->
                       banded(stems[k],
                              stemChildren(nodes, stemLen, idxOf(k), 1, {})) ])
        used == UNION { Range(idxOf(k)) : k \in DOMAIN stems }
    IN  parents \o unusedNodes(nodes, used)

\* the for loop over stemWindow, from position w on
RECURSIVE groupFrom_part_001(_, _)
groupFrom_part_001(nodes, w) ==
    IF w > Len(stemWindow) THEN nodes
    ELSE LET stems == validStems(nodes, stemWindow[w])
         IN  IF Len(stems) > 0
             THEN groupWith_part_001(nodes, stemWindow[w], stems)
             ELSE groupFrom_part_001(nodes, w + 1)

groupByStem_part_001(nodes) ==
    IF Len(nodes) <= 1 THEN nodes ELSE groupFrom_part_001(nodes, 1)

RECURSIVE buildHybridTree_part_001(_)
buildHybridTree_part_001(nodes) ==
    IF Len(nodes) = 0 THEN <<>>
    ELSE LET grouped == groupByStem_part_001(nodes)
         IN  Strict([ k \in DOMAIN grouped |->
                 IF isBand(grouped[k]) /\ grouped[k].hasChildren
                 THEN [grouped[k] EXCEPT
                         !.children = Strict([ c \in DOMAIN grouped[k].children |->
                             buildHybridTree_part_001(
                                 << grouped[k].children[c] >>)[1] ])]
                 ELSE IF grouped[k].hasChildren
                 THEN [grouped[k] EXCEPT
                         !.children =
                             buildHybridTree_part_001(grouped[k].children)]
                 ELSE grouped[k] ])

\* one call of buildMindmapTree of part_001
runBuildMindmapTree_part_001(text) ==
    LET raw == rawLinesOf(text)
        ls == classifyLines(raw)
    IN  [rawLines |-> raw, lines |-> ls,
         tree |-> IF Len(raw) = 0
                  THEN [label |-> SongTitle, children |-> <<>>]
                  ELSE [label |-> firstLyricTitle(ls),
                        children |-> buildHybridTree_part_001(ls)]]

buildMindmapTree_part_001(text) == runBuildMindmapTree_part_001(text).tree

(***************************************************************************)
(* Repeated-Block Finder (findRepeatedBlocks of mindmap.js and skills.js:  *)
(* the same algorithm; the blocks of mindmap.js carry count and no block   *)
(* key, those of skills.js carry the block key and no count)               *)
(***************************************************************************)
minBlockLen == 2
maxBlockLen == 6

\* the property key an undefined value turns into; no block key equals it,
\* since every block key holds a line break
Undefined == << "undefined" >>

mkBlock(start, len, textArr, count, block) ==
    [start |-> start, end |-> start + len, length |-> len,
     textArr |-> textArr, count |-> count, block |-> block]

\* lines.slice(i, i + blockLen).map(normalizeLine).join("\n"), i 0-based, on
\* the lines already normalized
blockKey(norm, i, blockLen) == join(SubSeq(norm, i + 1, i + blockLen), << NL >>)

\* the two nested for loops: the (blockLen, i) pairs in the order visited
RECURSIVE windowsFrom(_, _, _)
windowsFrom(n, blockLen, i) ==
    IF blockLen > maxBlockLen THEN <<>>
    ELSE IF i > n - blockLen THEN windowsFrom(n, blockLen + 1, 0)
    ELSE << << blockLen, i >> >> \o windowsFrom(n, blockLen, i + 1)

\* Object.entries(blockMap): the keys in insertion order (a key holds "\n",
\* so none is an array index); winKeys[k] is the key of window wins[k] ...
RECURSIVE blockKeysFrom(_, _, _)
blockKeysFrom(winKeys, k, acc) ==
    IF k > Len(winKeys) THEN acc
    ELSE blockKeysFrom(winKeys, k + 1,
                       IF winKeys[k] \in Range(acc) THEN acc
                       ELSE Append(acc, winKeys[k]))

\* ... and the start positions pushed for a key, ascending
blockIndices(wins, winKeys, key) ==
    LET hits == SelectSeq([ k \in DOMAIN wins |-> k ], LAMBDA k : winKeys[k] = key)
    IN  Strict([ k \in DOMAIN hits |-> wins[hits[k]][2] ])

\* mutant: only a start inside an accepted block counts as an overlap
overlapsAnyAtStart(blocks, idx, len) ==
    \E k \in DOMAIN blocks : idx >= blocks[k].start /\ idx < blocks[k].end

\* blocks.some(b => (idx >= b.start && idx < b.end) ||
\*                  (b.start >= idx && b.start < idx + len))
overlapsAny(blocks, idx, len) ==
    \E k \in DOMAIN blocks :
      \/ idx >= blocks[k].start /\ idx < blocks[k].end
      \/ blocks[k].start >= idx /\ blocks[k].start < idx + len

\* indices.forEach(idx => ...) for one key
RECURSIVE acceptIndices(_, _, _, _)
acceptIndices(blocks, key, indices, k) ==
    IF k > Len(indices) THEN blocks
    ELSE LET textArr == splitOn(key, NL, <<>>)
             len == Len(textArr)
             idx == indices[k]
         IN  acceptIndices(
               IF overlapsAny(blocks, idx, len) THEN blocks
               ELSE Append(blocks, mkBlock(idx, len, textArr, Len(indices), key)),
               key, indices, k + 1)

\* if (indices.length > 1)
keyRepeats(indices) == Len(indices) > 1

\* Object.entries(blockMap).forEach(...)
RECURSIVE acceptKeys(_, _, _, _, _)
acceptKeys(wins, winKeys, keys, k, blocks) ==
    IF k > Len(keys) THEN blocks
    ELSE LET indices == blockIndices(wins, winKeys, keys[k])
         IN  acceptKeys(wins, winKeys, keys, k + 1,
                        IF keyRepeats(indices)
                        THEN acceptIndices(blocks, keys[k], indices, 1)
                        ELSE blocks)

\* blocks.sort((a, b) => a.start - b.start)
sortByStart(blocks) == SortSeq(blocks, LAMBDA a, b : a.start < b.start)

repeatedBlocksOf(ls) ==
    LET norm == Strict([ k \in DOMAIN ls |-> normalizeLine(ls[k]) ])
        wins == windowsFrom(Len(ls), IF minBlockLen > 2 THEN minBlockLen ELSE 2, 0)
        winKeys == Strict([ k \in DOMAIN wins |-> blockKey(norm, wins[k][2], wins[k][1]) ])
        keys == blockKeysFrom(winKeys, 1, <<>>)
    IN  sortByStart(acceptKeys(wins, winKeys, keys, 1, <<>>))

\* mindmap.js: { start, end, length, textArr, count }
findRepeatedBlocks_mindmap(ls) ==
    LET bs == repeatedBlocksOf(ls)
    IN  Strict([ k \in DOMAIN bs |-> [bs[k] EXCEPT !.block = Undefined] ])

\* skills.js: { start, end, length, textArr, block }
findRepeatedBlocks_skills(ls) ==
    LET bs == repeatedBlocksOf(ls)
    IN  Strict([ k \in DOMAIN bs |-> [bs[k] EXCEPT !.count = 0] ])

(***************************************************************************)
(* Branching builders (buildBranchingMindmapTree of mindmap.js and of      *)
(* skills.js).  A branch is a record with every field present; kind names  *)
(* the code path that pushed it, and cover is a history field: the 0-based *)
(* positions in lines the branch, or the child, shows.                     *)
(***************************************************************************)
mkBranch(kind, hasLabel, label, big, count, repeat, repeated, children, cover) ==
    [kind |-> kind, hasLabel |-> hasLabel, label |-> label, big |-> big,
     count |-> count, repeat |-> repeat, repeated |-> repeated,
     children |-> children, cover |-> cover]

mkChild(label, cover) == [label |-> label, cover |-> cover]

\* { label: lines[i].marker, big: true, count: lines[i].count }
discourseBranch(ls, i) ==
    mkBranch("discourse", TRUE, ls[i + 1].label, TRUE, ls[i + 1].count, 0, FALSE,
             <<>>, {i})

\* { label: lines[i].text }
lineBranch(ls, i) ==
    mkBranch("line", TRUE, ls[i + 1].label, FALSE, 0, 0, FALSE, <<>>, {i})

\* block.textArr.map((t, j) => ({ label: t }))
blockChildren(block) ==
    Strict([ j \in DOMAIN block.textArr |->
               mkChild(block.textArr[j], {block.start + j - 1}) ])

\* mutant: the title is the first lyric line wherever it stands
titleOfFirstLyric(ls) == firstLyricTitle(ls)
\* const title = (lines[0].type === "lyric") ? lines[0].text : "Song"
titleOfFirstLine(ls) ==
    IF ls[1].type = "lyric" THEN ls[1].label ELSE SongTitle

\* lines.map(l => l.type === "lyric" ? l.text : "")
lyricLinesOf(ls) ==
    Strict([ p \in DOMAIN ls |-> IF ls[p].type = "lyric" THEN ls[p].label ELSE <<>> ])

\* ---- mindmap.js ----

\* repeatedBlocks.forEach(block => { if (!blockFirstOccurrence[block.block])
\*   blockFirstOccurrence[block.block] = block.start; }): the object as a
\* function from the keys set so far
RECURSIVE firstOccurrenceFrom(_, _, _)
firstOccurrenceFrom(blocks, k, bfo) ==
    IF k > Len(blocks) THEN bfo
    ELSE LET key == blocks[k].block
         IN  firstOccurrenceFrom(blocks, k + 1,
               IF key \notin DOMAIN bfo \/ bfo[key] = 0
               THEN [ x \in DOMAIN bfo \cup {key} |->
                        IF x = key THEN blocks[k].start ELSE bfo[x] ]
               ELSE bfo)

blockFirstOccurrence(blocks) == firstOccurrenceFrom(blocks, 1, << >>)

\* blockFirstOccurrence[b.block] === i
firstOccurrenceIs(bfo, block, i) ==
    block.block \in DOMAIN bfo /\ bfo[block.block] = i

\* the stems loop: each line files under its leading 3 words, or its leading
\* 2 words when it has only 2; entries { stem, idxArr, words } in push order
stemWordCount(line) ==
    LET n == Len(words(line))
    IN  IF n >= 3 THEN 3 ELSE IF n >= 2 THEN 2 ELSE 0

lineStem(line) ==
    toLowerCase(join(sliceTo(words(line), stemWordCount(line)), << " " >>))

RECURSIVE stemsFrom(_, _, _)
stemsFrom(lyricLs, p, acc) ==
    IF p > Len(lyricLs) THEN acc
    ELSE IF stemWordCount(lyricLs[p]) = 0 THEN stemsFrom(lyricLs, p + 1, acc)
    ELSE LET stem == lineStem(lyricLs[p])
         IN  IF \E k \in DOMAIN acc : acc[k].stem = stem
             THEN stemsFrom(lyricLs, p + 1,
                    Strict([ k \in DOMAIN acc |->
                        IF k = (CHOOSE m \in DOMAIN acc :
                                  /\ acc[m].stem = stem
                                  /\ \A q \in 1 .. (m - 1) : acc[q].stem # stem)
                        THEN [acc[k] EXCEPT !.idxArr = Append(@, p - 1)]
                        ELSE acc[k] ]))
             ELSE stemsFrom(lyricLs, p + 1,
                    Append(acc, [stem |-> stem, idxArr |-> << p - 1 >>,
                                 words |-> stemWordCount(lyricLs[p])]))

\* stems.filter(s => s.idxArr.length >= 2).sort((a, b) => b.words - a.words)
stemGroupsOf(lyricLs) ==
    LET kept == SelectSeq(stemsFrom(lyricLs, 1, <<>>), LAMBDA e : Len(e.idxArr) >= 2)
    IN  SelectSeq(kept, LAMBDA e : e.words = 3) \o SelectSeq(kept, LAMBDA e : e.words = 2)

\* stemObj.idxArr.filter(idx => !usedIdx.has(idx))
unusedOf(idxArr, usedIdx) == SelectSeq(idxArr, LAMBDA idx : idx \notin usedIdx)

\* the forEach building childNodes with the uniqueSuffixes set
RECURSIVE uniqueSuffixChildren(_, _, _, _, _)
uniqueSuffixChildren(ls, idxs, nWords, k, seen) ==
    IF k > Len(idxs) THEN <<>>
    ELSE LET line == IF ls[idxs[k] + 1].type = "lyric"
                     THEN ls[idxs[k] + 1].label ELSE <<>>
             raw == join(sliceFrom(words(line), nWords), << " " >>)
             suffix == IF raw = <<>> THEN EmptySuffix ELSE raw
             normSuffix == normalizeLine(suffix)
         IN  IF normSuffix \notin seen
             THEN << mkChild(suffix, {idxs[k]}) >>
                  \o uniqueSuffixChildren(ls, idxs, nWords, k + 1,
                                          seen \cup {normSuffix})
             ELSE uniqueSuffixChildren(ls, idxs, nWords, k + 1, seen)

\* Array.prototype.find, from the elements that satisfy the test: the first
\* of them as a one-element sequence, or none
findFirst(hits) == IF hits = <<>> THEN <<>> ELSE << hits[1] >>

\* the main loop of mindmap.js, from 0-based position i of lines on
RECURSIVE branchesFrom_mindmap(_, _, _, _, _, _)
branchesFrom_mindmap(ls, blocks, bfo, stemGroups, i, usedIdx) ==
    IF i >= Len(ls) THEN <<>>
    ELSE IF i \in usedIdx
    THEN branchesFrom_mindmap(ls, blocks, bfo, stemGroups, i + 1, usedIdx)
    ELSE IF ls[i + 1].type = "discourse"
    THEN << discourseBranch(ls, i) >>
         \o branchesFrom_mindmap(ls, blocks, bfo, stemGroups, i + 1, usedIdx \cup {i})
    ELSE
      LET block == findFirst(SelectSeq(blocks,
                     LAMBDA b : b.start = i /\ firstOccurrenceIs(bfo, b, i)))
          isInOtherBlock ==
            \E k \in DOMAIN blocks :
              /\ blocks[k].start # i
              /\ i >= blocks[k].start
              /\ i < blocks[k].end
              /\ ~firstOccurrenceIs(bfo, blocks[k], i)
          stemObj == findFirst(SelectSeq(stemGroups,
                       LAMBDA e : /\ \E k \in DOMAIN e.idxArr : e.idxArr[k] = i
                                  /\ Len(unusedOf(e.idxArr, usedIdx)) >= 2
                                  /\ e.idxArr[1] = i))
      IN  IF block # <<>>
          THEN << mkBranch("block", FALSE, <<>>, FALSE, 0, block[1].count, FALSE,
                           blockChildren(block[1]), i .. (i + block[1].length - 1)) >>
               \o branchesFrom_mindmap(ls, blocks, bfo, stemGroups, i + 1,
                                       usedIdx \cup (i .. (i + block[1].length - 1)))
          ELSE IF isInOtherBlock
          THEN branchesFrom_mindmap(ls, blocks, bfo, stemGroups, i + 1,
                                    usedIdx \cup {i})
          ELSE IF stemObj # <<>>
          THEN LET kids == uniqueSuffixChildren(ls, unusedOf(stemObj[1].idxArr, usedIdx),
                                                stemObj[1].words, 1, {})
               IN  << mkBranch("stem", TRUE, stemObj[1].stem, FALSE, 0, 0, FALSE, kids,
                               UNION { kids[k].cover : k \in DOMAIN kids }) >>
                   \o branchesFrom_mindmap(ls, blocks, bfo, stemGroups, i + 1,
                                           usedIdx \cup Range(stemObj[1].idxArr))
          ELSE << lineBranch(ls, i) >>
               \o branchesFrom_mindmap(ls, blocks, bfo, stemGroups, i + 1,
                                       usedIdx \cup {i})

\* one call of buildBranchingMindmapTree of mindmap.js: its locals and the
\* tree it returns
runBuildBranching_mindmap(text) ==
    LET raw == rawLinesOf(text)
        ls == classifyLines(raw)
        lyricLs == lyricLinesOf(ls)
        blocks == findRepeatedBlocks_mindmap(lyricLs)
    IN  [rawLines |-> raw, lines |-> ls, lyricLines |-> lyricLs,
         repeatedBlocks |-> blocks,
         tree |-> IF Len(raw) = 0
                  THEN [main |-> SongTitle, branches |-> <<>>]
                  ELSE [main |-> titleOfFirstLine(ls),
                        branches |-> branchesFrom_mindmap(ls, blocks,
                                       blockFirstOccurrence(blocks),
                                       stemGroupsOf(lyricLs), 0, {})]]

buildBranchingMindmapTree_mindmap(text) == runBuildBranching_mindmap(text).tree

\* ---- skills.js ----
RepeatedSection == <<"R","e","p","e","a","t","e","d"," ","s","e","c","t","i","o","n">>

\* detectStems(lyricLines, 2, 3): the 3-word stems of 2 or more lines, in
\* first-seen order, as { stem, idxArr }
detectStems(lyricLs, minCnt, minWords) ==
    LET has(p) == Len(words(lyricLs[p])) >= minWords
        key(p) == toLowerCase(join(sliceTo(words(lyricLs[p]), minWords), << " " >>))
        ps == SelectSeq([ p \in DOMAIN lyricLs |-> p ],
                LAMBDA p : has(p) /\ \A q \in 1 .. (p - 1) : has(q) => key(q) # key(p))
        idxArrOf(stem) ==
          LET hit == SelectSeq([ p \in DOMAIN lyricLs |-> p ],
                               LAMBDA p : has(p) /\ key(p) = stem)
          IN  Strict([ k \in DOMAIN hit |-> hit[k] - 1 ])
        all == Strict([ k \in DOMAIN ps |->
                          [stem |-> key(ps[k]), idxArr |-> idxArrOf(key(ps[k]))] ])
    IN  SelectSeq(all, LAMBDA e : Len(e.idxArr) >= minCnt)

\* blockMap[i]: the blocks whose span holds i, in repeatedBlocks order
blocksAt(blocks, i) == SelectSeq(blocks, LAMBDA b : b.start <= i /\ i < b.end)

\* blockMap[i].reduce((a, b) => (a.length > b.length ? a : b))
RECURSIVE longestOf(_, _, _)
longestOf(bs, k, a) ==
    IF k > Len(bs) THEN a
    ELSE longestOf(bs, k + 1, IF a.length > bs[k].length THEN a ELSE bs[k])

\* the main loop of skills.js, from 0-based position i of lines on
RECURSIVE branchesFrom_skills(_, _, _, _, _)
branchesFrom_skills(ls, blocks, stems, i, usedIdx) ==
    IF i >= Len(ls) THEN <<>>
    ELSE IF i \in usedIdx
    THEN branchesFrom_skills(ls, blocks, stems, i + 1, usedIdx)
    ELSE IF ls[i + 1].type = "discourse"
    THEN << discourseBranch(ls, i) >>
         \o branchesFrom_skills(ls, blocks, stems, i + 1, usedIdx \cup {i})
    ELSE
      LET here == blocksAt(blocks, i)
          block == IF here = <<>> THEN <<>> ELSE << longestOf(here, 2, here[1]) >>
          stemEntry == findFirst(SelectSeq(stems,
                         LAMBDA e : \E k \in DOMAIN e.idxArr : e.idxArr[k] = i))
      IN  IF block # <<>> /\ block[1].start = i
          THEN << mkBranch("block", TRUE, RepeatedSection, FALSE, 0, 0, TRUE,
                           blockChildren(block[1]), i .. (i + block[1].length - 1)) >>
               \o branchesFrom_skills(ls, blocks, stems, i + 1,
                                      usedIdx \cup (i .. (i + block[1].length - 1)))
          ELSE IF stemEntry # <<>> /\ stemEntry[1].idxArr[1] = i
          THEN LET idxArr == stemEntry[1].idxArr
               IN  << mkBranch("stem", TRUE,
                               join(sliceTo(splitWords(ls[i + 1].label, <<>>), 3), << " " >>),
                               FALSE, 0, 0, FALSE,
                               Strict([ k \in DOMAIN idxArr |->
                                   mkChild(ls[idxArr[k] + 1].label, {idxArr[k]}) ]),
                               Range(idxArr)) >>
                   \o branchesFrom_skills(ls, blocks, stems, i + 1,
                                          usedIdx \cup Range(idxArr))
          ELSE << lineBranch(ls, i) >>
               \o branchesFrom_skills(ls, blocks, stems, i + 1, usedIdx \cup {i})

\* one call of buildBranchingMindmapTree of skills.js: its locals and the
\* tree it returns
runBuildBranching_skills(text) ==
    LET raw == rawLinesOf(text)
        ls == classifyLines(raw)
        lyricLs == lyricLinesOf(ls)
        blocks == findRepeatedBlocks_skills(lyricLs)
    IN  [rawLines |-> raw, lines |-> ls, lyricLines |-> lyricLs,
         repeatedBlocks |-> blocks,
         tree |-> IF Len(raw) = 0
                  THEN [main |-> SongTitle, branches |-> <<>>]
                  ELSE [main |-> titleOfFirstLine(ls),
                        branches |-> branchesFrom_skills(ls, blocks,
                                       detectStems(lyricLs, 2, 3), 0, {})]]

buildBranchingMindmapTree_skills(text) == runBuildBranching_skills(text).tree

(***************************************************************************)
(* One call of a builder on a text.  The text is drawn from the texts of   *)
(* up to MaxLines lines over a corpus.                                     *)
(***************************************************************************)
MaxLines == 4

\* "na na na na", "Hey Jude", "don't make it bad", "don't be afraid", "[Chorus]",
\* "La"
HeyJudeCorpus ==
    << <<"n","a"," ","n","a"," ","n","a"," ","n","a">>,
       <<"H","e","y"," ","J","u","d","e">>,
       <<"d","o","n","'","t"," ","m","a","k","e"," ","i","t"," ","b","a","d">>,
       <<"d","o","n","'","t"," ","b","e"," ","a","f","r","a","i","d">>,
       <<"[","C","h","o","r","u","s","]">>,
       <<"L","a">> >>

\* "a b c d", "a b c D!", "a b c", "A b e", "la-la", "  "
StemCorpus ==
    << <<"a"," ","b"," ","c"," ","d">>,
       <<"a"," ","b"," ","c"," ","D","!">>,
       <<"a"," ","b"," ","c">>,
       <<"A"," ","b"," ","e">>,
       <<"l","a","-","l","a">>,
       <<" "," ">> >>

\* "a b c d e f", "a b c d e g", "a b c h", "z"
NestCorpus ==
    << <<"a"," ","b"," ","c"," ","d"," ","e"," ","f">>,
       <<"a"," ","b"," ","c"," ","d"," ","e"," ","g">>,
       <<"a"," ","b"," ","c"," ","h">>,
       <<"z">> >>

RECURSIVE SeqsUpTo(_, _)
SeqsUpTo(S, n) ==
    IF n = 0 THEN { <<>> }
    ELSE LET shorter == SeqsUpTo(S, n - 1)
         IN  shorter \cup { Append(q, x) : q \in shorter, x \in S }

TextsOver(corpus, n) ==
    { join(ls, << NL >>) : ls \in SeqsUpTo(Range(corpus), n) }

TreeInputs ==
    TextsOver(HeyJudeCorpus, MaxLines) \cup TextsOver(StemCorpus, MaxLines)
      \cup TextsOver(NestCorpus, MaxLines)

NoTree == [label |-> <<>>, children |-> <<>>]

\* null
Null == "null"

\* -Infinity and the finite times, as one kind of value
NegInfinity == [finite |-> FALSE, at |-> 0]
timeAt(t) == [finite |-> TRUE, at |-> t]

\* new ComboManager(onCombo): lastType = null, streak = 0
NewComboManager == lastType = Null /\ streak = 0

\* no Skill has been constructed
NoSkill == cooldown = 0 /\ lastUsed = NegInfinity /\ remaining = 0

\* no call is being followed step by step
NoCall == pc = "idle" /\ stack = <<>>

\* no line function has been called
NoLineCall ==
    theLine = <<>> /\ markerList0 = <<>> /\ normLine = <<>> /\ detected = NoMatch
NoBranching == [main |-> <<>>, branches |-> <<>>]

InitTree ==
    /\ lyrics \in TreeInputs
    /\ rawLines = <<>>
    /\ lines = <<>>
    /\ mindmap = NoTree
    /\ generated = FALSE
    /\ lyricLines = <<>>
    /\ repeatedBlocks = <<>>
    /\ branching = NoBranching
    /\ variant = "none"
    /\ NoLineCall
    /\ history = <<>>
    /\ NoCall
    /\ NewComboManager
    /\ NoSkill

\* buildMindmapTree(lyrics)
callBuildMindmapTree ==
    /\ ~generated
    /\ \E run \in {runBuildMindmapTree(lyrics)} :
           /\ rawLines' = run.rawLines
           /\ lines' = run.lines
           /\ mindmap' = run.tree
    /\ generated' = TRUE
    /\ variant' = "hybrid"
    /\ UNCHANGED << lyrics, lyricLines, repeatedBlocks, branching, lineVars,
                    history, callVars,
                    gameVars >>

NextTree == callBuildMindmapTree

SpecTree == InitTree /\ [][NextTree]_vars

(***************************************************************************)
(* findRepeatedBlocks called on a sequence of up to MaxBlockLines lyric    *)
(* line texts                                                              *)
(***************************************************************************)
MaxBlockLines == 6

\* "a b", "C!", "d"
BlockCorpus ==
    << <<"a"," ","b">>, <<"C","!">>, <<"d">> >>

InitBlocks ==
    /\ lyricLines \in SeqsUpTo(Range(BlockCorpus), MaxBlockLines)
    /\ repeatedBlocks = <<>>
    /\ variant = "none"
    /\ lyrics = <<>>
    /\ rawLines = <<>>
    /\ lines = <<>>
    /\ mindmap = NoTree
    /\ generated = FALSE
    /\ branching = NoBranching
    /\ NoLineCall
    /\ history = <<>>
    /\ NoCall
    /\ NewComboManager
    /\ NoSkill

\* findRepeatedBlocks(lyricLines, 2) of mindmap.js
callFindRepeatedBlocks_mindmap ==
    /\ variant = "none"
    /\ repeatedBlocks' = findRepeatedBlocks_mindmap(lyricLines)
    /\ variant' = "mindmap"
    /\ UNCHANGED << lyrics, rawLines, lines, mindmap, generated, lyricLines,
                    branching, lineVars, history, callVars,
                    gameVars >>

\* findRepeatedBlocks(lyricLines, 2) of skills.js
callFindRepeatedBlocks_skills ==
    /\ variant = "none"
    /\ repeatedBlocks' = findRepeatedBlocks_skills(lyricLines)
    /\ variant' = "skills"
    /\ UNCHANGED << lyrics, rawLines, lines, mindmap, generated, lyricLines,
                    branching, lineVars, history, callVars,
                    gameVars >>

NextBlocks == callFindRepeatedBlocks_mindmap \/ callFindRepeatedBlocks_skills

SpecBlocks == InitBlocks /\ [][NextBlocks]_vars

(***************************************************************************)
(* One call of buildBranchingMindmapTree of mindmap.js or of skills.js, or *)
(* of buildMindmapTree, on a text of up to MaxBranchLines lines            *)
(***************************************************************************)
MaxBranchLines == 6

\* "a b c", "d e", "na na"
BranchCorpus ==
    << <<"a"," ","b"," ","c">>, <<"d"," ","e">>, <<"n","a"," ","n","a">> >>

InitBranch ==
    /\ lyrics \in TextsOver(BranchCorpus, MaxBranchLines)
    /\ rawLines = <<>>
    /\ lines = <<>>
    /\ mindmap = NoTree
    /\ generated = FALSE
    /\ lyricLines = <<>>
    /\ repeatedBlocks = <<>>
    /\ branching = NoBranching
    /\ variant = "none"
    /\ NoLineCall
    /\ history = <<>>
    /\ NoCall
    /\ NewComboManager
    /\ NoSkill

\* buildBranchingMindmapTree(lyrics) of mindmap.js
callBuildBranchingMindmapTree_mindmap ==
    /\ ~generated
    /\ \E run \in {runBuildBranching_mindmap(lyrics)} :
           /\ rawLines' = run.rawLines
           /\ lines' = run.lines
           /\ lyricLines' = run.lyricLines
           /\ repeatedBlocks' = run.repeatedBlocks
           /\ branching' = run.tree
    /\ variant' = "mindmap"
    /\ generated' = TRUE
    /\ UNCHANGED << lyrics, mindmap, lineVars, history, callVars,
                    gameVars >>

\* buildBranchingMindmapTree(lyrics) of skills.js
callBuildBranchingMindmapTree_skills ==
    /\ ~generated
    /\ \E run \in {runBuildBranching_skills(lyrics)} :
           /\ rawLines' = run.rawLines
           /\ lines' = run.lines
           /\ lyricLines' = run.lyricLines
           /\ repeatedBlocks' = run.repeatedBlocks
           /\ branching' = run.tree
    /\ variant' = "skills"
    /\ generated' = TRUE
    /\ UNCHANGED << lyrics, mindmap, lineVars, history, callVars,
                    gameVars >>

NextBranch ==
    \/ callBuildBranchingMindmapTree_mindmap
    \/ callBuildBranchingMindmapTree_skills
    \/ callBuildMindmapTree

SpecBranch == InitBranch /\ [][NextBranch]_vars

(***************************************************************************)
(* One call of buildMindmapTree of part_001 (the banded builder)           *)
(***************************************************************************)
MaxBandLines == 5

\* three lines sharing a two-word stem with distinct rests (two bands), a
\* repeated rest, a line of its own and a marker line
BandCorpus ==
    << << "a", " ", "b", " ", "x" >>,
       << "a", " ", "b", " ", "y" >>,
       << "a", " ", "b", " ", "z" >>,
       << "A", " ", "b", " ", "X", "!" >>,
       << "c" >>,
       << "l", "a", " ", "l", "a" >> >>

InitBand ==
    /\ lyrics \in TextsOver(BandCorpus, MaxBandLines)
    /\ rawLines = <<>>
    /\ lines = <<>>
    /\ mindmap = NoTree
    /\ generated = FALSE
    /\ lyricLines = <<>>
    /\ repeatedBlocks = <<>>
    /\ branching = NoBranching
    /\ variant = "none"
    /\ NoLineCall
    /\ history = <<>>
    /\ NoCall
    /\ NewComboManager
    /\ NoSkill

\* buildMindmapTree(lyrics) of part_001
callBuildMindmapTree_part_001 ==
    /\ ~generated
    /\ \E run \in {runBuildMindmapTree_part_001(lyrics)} :
           /\ rawLines' = run.rawLines
           /\ lines' = run.lines
           /\ mindmap' = run.tree
    /\ variant' = "banded"
    /\ generated' = TRUE
    /\ UNCHANGED << lyrics, lyricLines, repeatedBlocks, branching, lineVars,
                    history, callVars,
                    gameVars >>

NextBand == callBuildMindmapTree_part_001

SpecBand == InitBand /\ [][NextBand]_vars

(***************************************************************************)
(* Up to MaxCalls calls of buildMindmapTree and of                         *)
(* buildBranchingMindmapTree (mindmap.js), one after the other, each on    *)
(* any of the texts; history records every call with its text and the      *)
(* tree it returned.                                                       *)
(***************************************************************************)
MaxCalls == 3

\* "", "na na\nna-na\nHey Jude", "a b c d\na b c\nz\na b c d" and
\* "a b\nc d\na b\nc d\nA b e"
PureTexts ==
    { <<>>,
      join(<< <<"n","a"," ","n","a">>, <<"n","a","-","n","a">>,
              <<"H","e","y"," ","J","u","d","e">> >>, << NL >>),
      join(<< <<"a"," ","b"," ","c"," ","d">>, <<"a"," ","b"," ","c">>,
              <<"z">>, <<"a"," ","b"," ","c"," ","d">> >>, << NL >>),
      join(<< <<"a"," ","b">>, <<"c"," ","d">>, <<"a"," ","b">>,
              <<"c"," ","d">>, <<"A"," ","b"," ","e">> >>, << NL >>) }

InitPure ==
    /\ lyrics = <<>>
    /\ rawLines = <<>>
    /\ lines = <<>>
    /\ mindmap = NoTree
    /\ generated = FALSE
    /\ lyricLines = <<>>
    /\ repeatedBlocks = <<>>
    /\ branching = NoBranching
    /\ variant = "none"
    /\ NoLineCall
    /\ history = <<>>
    /\ NoCall
    /\ NewComboManager
    /\ NoSkill

\* one more call buildMindmapTree(text)
nextCallBuildMindmapTree ==
    /\ Len(history) < MaxCalls
    /\ \E text \in PureTexts :
         \E run \in {runBuildMindmapTree(text)} :
           /\ lyrics' = text
           /\ rawLines' = run.rawLines
           /\ lines' = run.lines
           /\ mindmap' = run.tree
           /\ history' = Append(history, [fn |-> "buildMindmapTree",
                                          text |-> text, tree |-> run.tree])
    /\ generated' = TRUE
    /\ variant' = "hybrid"
    /\ UNCHANGED << lyricLines, repeatedBlocks, branching, lineVars, callVars,
                    gameVars >>

\* one more call buildBranchingMindmapTree(text) of mindmap.js
nextCallBuildBranchingMindmapTree ==
    /\ Len(history) < MaxCalls
    /\ \E text \in PureTexts :
         \E run \in {runBuildBranching_mindmap(text)} :
           /\ lyrics' = text
           /\ rawLines' = run.rawLines
           /\ lines' = run.lines
           /\ lyricLines' = run.lyricLines
           /\ repeatedBlocks' = run.repeatedBlocks
           /\ branching' = run.tree
           /\ history' = Append(history, [fn |-> "buildBranchingMindmapTree",
                                          text |-> text, tree |-> run.tree])
    /\ generated' = TRUE
    /\ variant' = "mindmap"
    /\ UNCHANGED << mindmap, lineVars, callVars,
                    gameVars >>

NextPure == nextCallBuildMindmapTree \/ nextCallBuildBranchingMindmapTree

SpecPure == InitPure /\ [][NextPure]_vars

(***************************************************************************)
(* One call of buildMindmapTree followed call by call: each step makes the *)
(* first pending call of buildHybridTree, which groups its list and leaves *)
(* one pending call for every grouped node that has children.              *)
(***************************************************************************)
MaxCallLines == 3

CallInputs ==
    TextsOver(HeyJudeCorpus, MaxCallLines) \cup TextsOver(StemCorpus, MaxCallLines)
      \cup TextsOver(NestCorpus, MaxCallLines)

InitCalls ==
    /\ lyrics \in CallInputs
    /\ rawLines = <<>>
    /\ lines = <<>>
    /\ mindmap = NoTree
    /\ generated = FALSE
    /\ lyricLines = <<>>
    /\ repeatedBlocks = <<>>
    /\ branching = NoBranching
    /\ variant = "none"
    /\ NoLineCall
    /\ history = <<>>
    /\ NoCall
    /\ NewComboManager
    /\ NoSkill

\* node.label.trim() on a lyric node whose label is no string throws
throwsOn(nodes) ==
    \E k \in DOMAIN nodes : nodes[k].type = "lyric" /\ nodes[k].label = NullLabel

\* mutant: the recursion is made on the grouped list itself
recursiveCallsOnSelf(grouped) == << grouped >>

\* if (node.children) node.children = buildHybridTree(node.children): the
\* arguments of the recursive calls, in the order of the map
recursiveCalls(grouped) ==
    LET ps == SelectSeq([ k \in DOMAIN grouped |-> k ],
                        LAMBDA k : grouped[k].hasChildren)
    IN  Strict([ q \in DOMAIN ps |-> grouped[ps[q]].children ])

\* the pending calls once the first of them, buildHybridTree(nodes), is made
afterCall(calls) ==
    LET nodes == Head(calls)
    IN  IF Len(nodes) = 0 THEN Tail(calls)
        ELSE recursiveCalls(groupByStem(nodes)) \o Tail(calls)

\* buildMindmapTree(lyrics) up to its call of buildHybridTree(lines), or up to
\* the early return on no lines
enterBuildMindmapTree ==
    /\ pc = "idle"
    /\ \E raw \in { rawLinesOf(lyrics) } :
         \E ls \in { classifyLines(raw) } :
           /\ rawLines' = raw
           /\ lines' = ls
           /\ IF Len(raw) = 0
              THEN /\ mindmap' = [label |-> SongTitle, children |-> <<>>]
                   /\ generated' = TRUE
                   /\ pc' = "returned"
                   /\ stack' = <<>>
              ELSE /\ mindmap' = mindmap
                   /\ generated' = FALSE
                   /\ pc' = "running"
                   /\ stack' = << ls >>
    /\ variant' = "hybrid"
    /\ UNCHANGED << lyrics, lyricLines, repeatedBlocks, branching, lineVars,
                    history,
                    gameVars >>

\* the first pending call buildHybridTree(nodes)
stepBuildHybridTree ==
    /\ pc = "running"
    /\ stack # <<>>
    /\ IF throwsOn(Head(stack))
       THEN pc' = "raised" /\ stack' = <<>>
       ELSE pc' = pc /\ stack' = afterCall(stack)
    /\ UNCHANGED << buildVars, variant, lineVars, history,
                    gameVars >>

\* return { label: title, children }
returnBuildMindmapTree ==
    /\ pc = "running"
    /\ stack = <<>>
    /\ mindmap' = [label |-> firstLyricTitle(lines),
                   children |-> buildHybridTree(lines)]
    /\ generated' = TRUE
    /\ pc' = "returned"
    /\ UNCHANGED << lyrics, rawLines, lines, lyricLines, repeatedBlocks,
                    branching, variant, lineVars, history, stack,
                    gameVars >>

NextCalls ==
    \/ enterBuildMindmapTree
    \/ stepBuildHybridTree
    \/ returnBuildMindmapTree

SpecCalls == InitCalls /\ [][NextCalls]_vars

(***************************************************************************)
(* parseLyricsToNodes of mindmap.js ("Always Sings the Whole Song"): the   *)
(* discourse runs and the lyric lines in input order, a lyric node telling *)
(* whether its normalized line was seen before.  seenLines is a plain      *)
(* object, so a key it does not own is looked up in Object.prototype.      *)
(***************************************************************************)
\* { type: "discourse", marker, count }
parsedDiscourse(marker, count, i, j) ==
    [type |-> "discourse", marker |-> marker, text |-> <<>>, count |-> count,
     repeat |-> FALSE, origIndex |-> -1, cover |-> i .. (j - 1)]

\* { type: "lyric", text: line, repeat: isRepeat, origIndex: i }
parsedLyric(line, isRepeat, i) ==
    [type |-> "lyric", marker |-> <<>>, text |-> line, count |-> 0,
     repeat |-> isRepeat, origIndex |-> i, cover |-> {i}]

\* the property names of Object.prototype that normalizeLine can return: of
\* constructor, hasOwnProperty, isPrototypeOf, propertyIsEnumerable,
\* toLocaleString, toString, valueOf, __proto__ and the __define/lookup
\* Getter/Setter__ four, the only one without a capital or an underscore
InheritedKeys == { << "c", "o", "n", "s", "t", "r", "u", "c", "t", "o", "r" >> }

\* the for loop from 1-based position p on; seenLines maps the keys it owns
\* to the node positions pushed for them
RECURSIVE parseFrom(_, _, _, _)
parseFrom(raw, p, nodes, seenLines) ==
    IF p > Len(raw) THEN [raised |-> FALSE, nodes |-> nodes]
    ELSE LET dm == isDiscourseMarkerLine(raw[p], DISCOURSE_MARKERS)
             norm == normalizeLine(raw[p])
         IN  IF dm.found
             THEN LET j == runEnd(raw, dm.marker, p + 1)
                      count == dm.count + runCount(raw, dm.marker, p + 1, j)
                  IN  parseFrom(raw, j,
                                Append(nodes, parsedDiscourse(dm.marker, count,
                                                              p - 1, j - 1)),
                                seenLines)
             ELSE IF norm \in DOMAIN seenLines
             THEN parseFrom(raw, p + 1,
                            Append(nodes, parsedLyric(raw[p], TRUE, p - 1)),
                            [seenLines EXCEPT ![norm] = Append(@, Len(nodes))])
             ELSE IF norm \in InheritedKeys
             THEN \* seenLines[norm] is a function of the prototype: truthy,
                  \* and its push is undefined, so the call throws a TypeError
                  [raised |-> TRUE, nodes |-> <<>>]
             ELSE parseFrom(raw, p + 1,
                            Append(nodes, parsedLyric(raw[p], FALSE, p - 1)),
                            (norm :> << Len(nodes) >>) @@ seenLines)

parseLyricsToNodes(text) == parseFrom(rawLinesOf(text), 1, <<>>, << >>)

MaxParseLines == 4

\* "Hey Jude", "hey jude!", "na na", "La", "[Chorus]", "Constructor"
ParseCorpus ==
    << << "H", "e", "y", " ", "J", "u", "d", "e" >>,
       << "h", "e", "y", " ", "j", "u", "d", "e", "!" >>,
       << "n", "a", " ", "n", "a" >>,
       << "L", "a" >>,
       << "[", "C", "h", "o", "r", "u", "s", "]" >>,
       << "C", "o", "n", "s", "t", "r", "u", "c", "t", "o", "r" >> >>

InitParse ==
    /\ lyrics \in TextsOver(ParseCorpus, MaxParseLines)
    /\ rawLines = <<>>
    /\ lines = <<>>
    /\ mindmap = NoTree
    /\ generated = FALSE
    /\ lyricLines = <<>>
    /\ repeatedBlocks = <<>>
    /\ branching = NoBranching
    /\ variant = "none"
    /\ NoLineCall
    /\ history = <<>>
    /\ NoCall
    /\ NewComboManager
    /\ NoSkill

\* parseLyricsToNodes(lyrics)
callParseLyricsToNodes ==
    /\ pc = "idle"
    /\ \E run \in { parseLyricsToNodes(lyrics) } :
           /\ lines' = run.nodes
           /\ pc' = IF run.raised THEN "raised" ELSE "returned"
           /\ generated' = ~run.raised
    /\ rawLines' = rawLinesOf(lyrics)
    /\ variant' = "parse"
    /\ UNCHANGED << lyrics, mindmap, lyricLines, repeatedBlocks, branching,
                    lineVars, history, stack,
                    gameVars >>

NextParse == callParseLyricsToNodes

SpecParse == InitParse /\ [][NextParse]_vars

(***************************************************************************)
(* ComboManager (combo.js): up to MaxComboCalls calls of onGrab and reset  *)
(* on one manager.  A bonus multiplier is a multiple of 0.5 and is kept in *)
(* halves (2 for 1, 3 for 1.5).  history holds one entry per call: the     *)
(* method, its argument, the value returned and the calls of onCombo made, *)
(* each with its three arguments.                                          *)
(***************************************************************************)
MaxComboCalls == 4

\* this.comboThreshold = 2
comboThreshold == 2

\* the types grabbed; null is one of the values a caller can pass
GrabTypes == { "coin", "gem", Null }

\* mutant: the streak grows whatever the type
streakAfterAnyGrab(type) == streak + 1

\* if (type === this.lastType) this.streak += 1; else this.streak = 1
streakAfter(type) == IF type = lastType THEN streak + 1 ELSE 1

\* mutant: half a point for every grab of the streak, the first included
bonusMultiplierPerGrab(s) == 2 + s

\* 1 + 0.5 * (this.streak - this.comboThreshold + 1), in halves
bonusMultiplier(s) == 2 + (s - comboThreshold + 1)

\* the number 1, in halves
One == 2

InitCombo ==
    /\ lyrics = <<>>
    /\ rawLines = <<>>
    /\ lines = <<>>
    /\ mindmap = NoTree
    /\ generated = FALSE
    /\ lyricLines = <<>>
    /\ repeatedBlocks = <<>>
    /\ branching = NoBranching
    /\ variant = "none"
    /\ NoLineCall
    /\ history = <<>>
    /\ NoCall
    /\ NewComboManager
    /\ NoSkill

\* onGrab(type)
onGrab ==
    /\ Len(history) < MaxComboCalls
    /\ \E type \in GrabTypes :
         \E s \in { streakAfter(type) } :
           /\ streak' = s
           /\ lastType' = IF type = lastType THEN lastType ELSE type
           /\ history' = Append(history,
                [fn |-> "onGrab", type |-> type,
                 onCombo |-> IF s >= comboThreshold
                             THEN << << type, s, bonusMultiplier(s) >> >>
                             ELSE <<>>,
                 returned |-> IF s >= comboThreshold
                              THEN bonusMultiplier(s) ELSE One])
    /\ variant' = "combo"
    /\ UNCHANGED << buildVars, lineVars, callVars, skillVars >>

\* reset()
reset ==
    /\ Len(history) < MaxComboCalls
    /\ lastType' = Null
    /\ streak' = 0
    /\ history' = Append(history, [fn |-> "reset", type |-> Null,
                                   onCombo |-> <<>>, returned |-> 0])
    /\ variant' = "combo"
    /\ UNCHANGED << buildVars, lineVars, callVars, skillVars >>

NextCombo == onGrab \/ reset

SpecCombo == InitCombo /\ [][NextCombo]_vars

(***************************************************************************)
(* Skill (skills.js): up to MaxActivations calls of activate(now) on one   *)
(* skill.  Times are in milliseconds, cooldown in seconds.  lastUsed is    *)
(* -Infinity until the first activation that takes effect.  history holds  *)
(* one entry per call: the time passed, whether onActivate ran, and        *)
(* lastUsed and remaining as the call found them.                          *)
(***************************************************************************)
MaxActivations == 3

\* the cooldowns a skill is constructed with, in seconds
Cooldowns == { 0, 1 }

\* the times activate is called with, in milliseconds; the clock of a caller
\* need not be monotonic
Times == { 0, 500, 1000, 1001, 2001 }

\* now - this.lastUsed; now - (-Infinity) is Infinity, above every number
\* mutant: an activation exactly one cooldown after the last is accepted
canActivateAtCooldown(now) ==
    \/ ~lastUsed.finite
    \/ now - lastUsed.at >= cooldown * 1000

\* canActivate(now): (now - this.lastUsed) > this.cooldown * 1000
canActivate(now) ==
    \/ ~lastUsed.finite
    \/ now - lastUsed.at > cooldown * 1000

\* new Skill({ cooldown })
InitSkill ==
    /\ lyrics = <<>>
    /\ rawLines = <<>>
    /\ lines = <<>>
    /\ mindmap = NoTree
    /\ generated = FALSE
    /\ lyricLines = <<>>
    /\ repeatedBlocks = <<>>
    /\ branching = NoBranching
    /\ variant = "none"
    /\ NoLineCall
    /\ history = <<>>
    /\ NoCall
    /\ NewComboManager
    /\ cooldown \in Cooldowns
    /\ lastUsed = NegInfinity
    /\ remaining = 0

\* activate(now, ...params)
activate ==
    /\ Len(history) < MaxActivations
    /\ \E now \in Times :
         \E ok \in { canActivate(now) } :
           /\ lastUsed' = IF ok THEN timeAt(now) ELSE lastUsed
           /\ remaining' = IF ok THEN cooldown ELSE remaining
           /\ history' = Append(history,
                [now |-> now, onActivate |-> ok,
                 lastUsed |-> lastUsed, remaining |-> remaining])
    /\ variant' = "skill"
    /\ UNCHANGED << cooldown, buildVars, lineVars, callVars, comboVars >>

NextSkill == activate

SpecSkill == InitSkill /\ [][NextSkill]_vars

(***************************************************************************)
(* One call of normalizeLine or of isDiscourseMarkerLine on a line of up   *)
(* to MaxTokens tokens, or on a run of up to MaxReps repetitions of a      *)
(* default marker                                                          *)
(***************************************************************************)
MaxTokens == 4
MaxReps == 3

\* "na", "Ha", " ", "-", "X7", "'!\t", and a letter outside a-z
LineTokens ==
    { <<"n","a">>, <<"H","a">>, <<" ">>, <<"-">>, <<"X","7">>, <<"'","!","\t">>,
      <<"é">> }

Separators == { <<>>, <<" ">>, <<"-">> }

\* n repetitions of a marker with the separator between them
RECURSIVE runOf(_, _, _)
runOf(marker, n, sep) ==
    IF n <= 1 THEN marker ELSE marker \o sep \o runOf(marker, n - 1, sep)

MarkerRuns ==
    { runOf(m, n, sep) : m \in Range(DISCOURSE_MARKERS), n \in 1 .. MaxReps,
                         sep \in Separators }

RECURSIVE concat(_)
concat(parts) == IF parts = <<>> THEN <<>> ELSE Head(parts) \o concat(Tail(parts))

LineInputs == { concat(ts) : ts \in SeqsUpTo(LineTokens, MaxTokens) } \cup MarkerRuns

\* the default list, two lists whose markers both match "haha", and a
\* one-marker list as the classification loop passes
MarkerLists ==
    { DISCOURSE_MARKERS,
      << <<"h","a">>, <<"h","a","h","a">> >>,
      << <<"h","a","h","a">>, <<"h","a">> >>,
      << <<"n","a">> >> }

InitLine ==
    /\ theLine \in LineInputs
    /\ markerList0 \in MarkerLists
    /\ normLine = <<>>
    /\ detected = NoMatch
    /\ variant = "none"
    /\ lyrics = <<>>
    /\ rawLines = <<>>
    /\ lines = <<>>
    /\ mindmap = NoTree
    /\ generated = FALSE
    /\ lyricLines = <<>>
    /\ repeatedBlocks = <<>>
    /\ branching = NoBranching
    /\ history = <<>>
    /\ NoCall
    /\ NewComboManager
    /\ NoSkill

\* normalizeLine(line)
callNormalizeLine ==
    /\ variant = "none"
    /\ normLine' = normalizeLine(theLine)
    /\ variant' = "normalizeLine"
    /\ UNCHANGED << buildVars, theLine, markerList0, detected, history, callVars,
                    gameVars >>

\* isDiscourseMarkerLine(line, markerList), with its local norm
callIsDiscourseMarkerLine ==
    /\ variant = "none"
    /\ normLine' = normalizeLine(theLine)
    /\ detected' = isDiscourseMarkerLine(theLine, markerList0)
    /\ variant' = "isDiscourseMarkerLine"
    /\ UNCHANGED << buildVars, theLine, markerList0, history, callVars,
                    gameVars >>

NextLine == callNormalizeLine \/ callIsDiscourseMarkerLine

SpecLine == InitLine /\ [][NextLine]_vars

(***************************************************************************)
(* Properties of buildMindmapTree                                          *)
(***************************************************************************)
\* how many nodes of a forest stand for raw line r
RECURSIVE coverCount(_, _)
coverCount(nodes, r) ==
    IF nodes = <<>> THEN 0
    ELSE (IF r \in Head(nodes).cover THEN 1 ELSE 0)
         + coverCount(Head(nodes).children, r)
         + coverCount(Tail(nodes), r)

HasLyric == \E p \in DOMAIN lines : lines[p].type = "lyric"

\* the raw position of the line chosen as root label
rootIdx ==
    lines[CHOOSE p \in DOMAIN lines :
                   /\ lines[p].type = "lyric"
                   /\ \A q \in 1 .. (p - 1) : lines[q].type # "lyric"].idx

NonRootLines ==
    { r \in 0 .. (Len(rawLines) - 1) : HasLyric => r # rootIdx }

\* raw line r repeats, under an emitted stem node, the normalized suffix of an
\* earlier line that has a child there
IsDroppedRepeat(r) ==
    \E k \in DOMAIN mindmap.children :
      LET c == mindmap.children[k]
          L == Len(words(c.label))
          me == lyricNode(rawLines[r + 1], r)
      IN  /\ c.hasChildren
          /\ isDiscourseMarkerLine(rawLines[r + 1], DISCOURSE_MARKERS).found = FALSE
          /\ hasStemOfLen(me, L)
          /\ stemKey(me, L) = c.label
          /\ \E j \in DOMAIN c.children :
               /\ \A q \in c.children[j].cover : q < r
               /\ normalizeLine(c.children[j].label) = normalizeLine(suffixOf(me, L))

\* C1 (as claimed): every retained line other than the root line is represented
\* in exactly one node below the root.
C1_EveryLineOnce ==
    generated => \A r \in NonRootLines : coverCount(mindmap.children, r) = 1

\* C1 (amended): every retained line other than the root line is represented in
\* at most one node below the root; it has no node exactly when it is a lyric
\* line under an emitted stem whose normalized suffix repeats that of an
\* earlier line under the same stem, and exactly one node otherwise.
C1_EveryLineOnceUnlessRepeat ==
    generated =>
      \A r \in NonRootLines :
        /\ coverCount(mindmap.children, r) <= 1
        /\ (coverCount(mindmap.children, r) = 0) <=> IsDroppedRepeat(r)

\* a build with a discourse node, a stem node of two children and a dropped
\* repeat
C1_Witness ==
    /\ generated
    /\ \E r \in NonRootLines : IsDroppedRepeat(r)
    /\ \E k \in DOMAIN mindmap.children : mindmap.children[k].type = "discourse"
    /\ \E k \in DOMAIN mindmap.children :
         /\ mindmap.children[k].hasChildren
         /\ Len(mindmap.children[k].children) = 2

\* "na na na na\nHey Jude\ndon't make it bad\ndon't be afraid"
HeyJudeText ==
    join(<< HeyJudeCorpus[1], HeyJudeCorpus[2], HeyJudeCorpus[3], HeyJudeCorpus[4] >>,
         << NL >>)

Str_na == <<"n","a">>
Str_dont == <<"d","o","n","'","t">>
Str_make_it_bad == <<"m","a","k","e"," ","i","t"," ","b","a","d">>
Str_be_afraid == <<"b","e"," ","a","f","r","a","i","d">>

IsNaTimes4(n) == n.type = "discourse" /\ n.label = Str_na /\ n.big /\ n.count = 4

\* C2 (as claimed): for the Hey Jude input the root label is "Hey Jude", the
\* children hold the discourse node "na" with count 4 at the position of its
\* line, and a stem node "don't" whose children are exactly "make it bad" and
\* "be afraid".
C2_HeyJudeScenario ==
    (generated /\ lyrics = HeyJudeText) =>
      /\ mindmap.label = HeyJudeCorpus[2]
      /\ IsNaTimes4(mindmap.children[1])
      /\ \E k \in DOMAIN mindmap.children :
           /\ mindmap.children[k].label = Str_dont
           /\ mindmap.children[k].hasChildren
           /\ Len(mindmap.children[k].children) = 2
           /\ mindmap.children[k].children[1].label = Str_make_it_bad
           /\ mindmap.children[k].children[2].label = Str_be_afraid

\* C2 (amended): for the Hey Jude input the root label is "Hey Jude" and the
\* first child is the discourse node "na" with count 4; no stem node is built
\* (the two "don't" lines share no 2- or 3-word stem): "don't make it bad" and
\* "don't be afraid" are the last two children, standalone and childless.
C2_HeyJudeFlat ==
    (generated /\ lyrics = HeyJudeText) =>
      /\ mindmap.label = HeyJudeCorpus[2]
      /\ IsNaTimes4(mindmap.children[1])
      /\ \A k \in DOMAIN mindmap.children : ~mindmap.children[k].hasChildren
      /\ \A k \in DOMAIN mindmap.children : mindmap.children[k].label # Str_dont
      /\ Len(mindmap.children) = 4
      /\ mindmap.children[3].label = HeyJudeCorpus[3]
      /\ mindmap.children[4].label = HeyJudeCorpus[4]

C2_Witness == generated /\ lyrics = HeyJudeText /\ Len(mindmap.children) = 4

\* C3 (as claimed): the line chosen as the root label is not emitted again as a
\* node below the root.
C3_RootNotAmongChildren ==
    (generated /\ HasLyric) => coverCount(mindmap.children, rootIdx) = 0

\* every line of the text is blank or a bracket tag
NoContent(text) ==
    LET ls == splitLines(text)
    IN  \A i \in DOMAIN ls : trim(ls[i]) = <<>> \/ IsTagLine(trim(ls[i]))

\* C4: an input with no non-blank, non-tag line yields exactly
\* {label: "Song", children: []}.
C4_EmptyInputGivesSong ==
    (generated /\ NoContent(lyrics)) =>
      mindmap = [label |-> SongTitle, children |-> <<>>]

\* a build from a text whose lines are bracket tags or blank, one of them a tag
C4_Witness ==
    /\ generated
    /\ NoContent(lyrics)
    /\ \E i \in DOMAIN splitLines(lyrics) : IsTagLine(trim(splitLines(lyrics)[i]))
    /\ mindmap = [label |-> SongTitle, children |-> <<>>]

\* every node of the level has the stem
AllShareStem(nodes, stem) ==
    LET L == Len(words(stem))
    IN  \A p \in DOMAIN nodes :
          hasStemOfLen(nodes[p], L) /\ stemKey(nodes[p], L) = stem

\* C10: no stem parent node has a stem shared by every node of the list
\* groupByStem was called on; below the top level no stem node is built at all.
C10_NoStemSharedByAll ==
    generated =>
      \A k \in DOMAIN mindmap.children :
        LET c == mindmap.children[k]
        IN  c.hasChildren =>
              /\ ~AllShareStem(lines, c.label)
              /\ \A j \in DOMAIN c.children : ~c.children[j].hasChildren

\* two or more lines that all share a 2-word stem, left ungrouped
C10_Witness ==
    /\ generated
    /\ Len(lines) >= 2
    /\ AllShareStem(lines, stemKey(lines[1], 2))
    /\ \A k \in DOMAIN mindmap.children : ~mindmap.children[k].hasChildren

(***************************************************************************)
(* Properties of the root label                                            *)
(***************************************************************************)
\* the root label of the tree the last build returned
rootLabel == IF variant = "hybrid" THEN mindmap.label ELSE branching.main

\* C5 (as claimed): in every tree builder the root label is the text of the
\* first classified line of type lyric, and it is "Song" exactly when no
\* classified line is a lyric line.
C5_RootIsFirstLyric ==
    variant # "none" =>
      /\ HasLyric => rootLabel = firstLyricTitle(lines)
      /\ (rootLabel = SongTitle) <=> ~HasLyric

\* C5 (amended): buildMindmapTree's label is the text of the first classified
\* line of type lyric, and "Song" exactly when there is none;
\* buildBranchingMindmapTree's main is the text of the first classified line
\* when that line is a lyric line, and "Song" whenever the first classified
\* line is a discourse line or there is no line, a later lyric line or not.
C5_RootLabel ==
    /\ variant = "hybrid" =>
         /\ HasLyric => mindmap.label = firstLyricTitle(lines)
         /\ (mindmap.label = SongTitle) <=> ~HasLyric
    /\ variant \in {"mindmap", "skills"} =>
         /\ (lines # <<>> /\ lines[1].type = "lyric") => branching.main = lines[1].label
         /\ (branching.main = SongTitle) <=> (lines = <<>> \/ lines[1].type # "lyric")

\* a branching build from a text that opens with a discourse line and has a
\* lyric line after it
C5_Witness ==
    /\ variant \in {"mindmap", "skills"}
    /\ lines # <<>>
    /\ lines[1].type = "discourse"
    /\ HasLyric
    /\ branching.main = SongTitle

(***************************************************************************)
(* Properties of findRepeatedBlocks                                        *)
(***************************************************************************)
\* the normalized texts of the len lines from 0-based position i of lyricLines
normWindow(i, len) ==
    Strict([ j \in 1 .. len |-> normalizeLine(lyricLines[i + j]) ])

\* the 0-based positions where the len lines of a text array occur
occurrencesOf(textArr) ==
    { i \in 0 .. (Len(lyricLines) - Len(textArr)) :
        normWindow(i, Len(textArr)) = textArr }

\* C6 (as claimed): every block returned by findRepeatedBlocks has a
\* normalized text that occurs at two or more pairwise non-overlapping start
\* positions of the input.
C6_BlocksRepeatWithoutOverlap ==
    variant # "none" =>
      \A k \in DOMAIN repeatedBlocks :
        \E i, j \in occurrencesOf(repeatedBlocks[k].textArr) :
          i + repeatedBlocks[k].length <= j

\* L pairwise distinct lines stand at p and again at q, clear of each other,
\* and no other line of the input repeats
IsTwiceOnly(p, q, L) ==
    /\ p + L <= q
    /\ q + L <= Len(lyricLines)
    /\ normWindow(p, L) = normWindow(q, L)
    /\ \A a, b \in 1 .. L : a # b => normWindow(p, L)[a] # normWindow(p, L)[b]
    /\ \A x \in 0 .. (Len(lyricLines) - 1) :
         (x \notin (p .. (p + L - 1)) \cup (q .. (q + L - 1))) =>
           \A y \in 0 .. (Len(lyricLines) - 1) :
             y # x => normalizeLine(lyricLines[y + 1]) # normalizeLine(lyricLines[x + 1])

\* C7 (as claimed): for each length L from 2 through 6, when L pairwise
\* distinct lines occur at exactly two non-overlapping positions and no other
\* line repeats, findRepeatedBlocks returns a block of length L that starts at
\* the first occurrence.
C7_WholeSequenceIsOneBlock ==
    variant # "none" =>
      \A L \in minBlockLen .. maxBlockLen :
        \A p, q \in 0 .. Len(lyricLines) :
          IsTwiceOnly(p, q, L) =>
            \E k \in DOMAIN repeatedBlocks :
              /\ repeatedBlocks[k].start = p
              /\ repeatedBlocks[k].length = L

(***************************************************************************)
(* Properties of buildBranchingMindmapTree                                 *)
(***************************************************************************)
\* the positions of lines that a branch or one of its children shows
shownBy(branch) ==
    branch.cover \cup UNION { branch.children[j].cover : j \in DOMAIN branch.children }

\* the branches pushed for a repeated block
blockBranches ==
    { k \in DOMAIN branching.branches : branching.branches[k].kind = "block" }

\* the classified lines are the lyric lines A, B, A, B with A and B distinct
\* and non-trivial
IsABAB ==
    /\ Len(lines) = 4
    /\ \A p \in DOMAIN lines : lines[p].type = "lyric"
    /\ normalizeLine(lines[1].label) = normalizeLine(lines[3].label)
    /\ normalizeLine(lines[2].label) = normalizeLine(lines[4].label)
    /\ normalizeLine(lines[1].label) # normalizeLine(lines[2].label)
    /\ normalizeLine(lines[1].label) # <<>>
    /\ normalizeLine(lines[2].label) # <<>>

\* C8 (as claimed): for classified lyric lines A, B, A, B the block finder
\* yields one block of length 2 at index 0 with 2 occurrences, and
\* buildBranchingMindmapTree of mindmap.js emits that block once, at the
\* position of index 0, while the lines at indices 2 and 3 get no node of
\* their own.
C8_ABABIsOneBlock ==
    (variant = "mindmap" /\ IsABAB) =>
      /\ Len(repeatedBlocks) = 1
      /\ repeatedBlocks[1].start = 0
      /\ repeatedBlocks[1].length = 2
      /\ repeatedBlocks[1].count = 2
      /\ blockBranches = {1}
      /\ branching.branches[1].cover = {0, 1}
      /\ branching.branches[1].repeat = 2
      /\ \A k \in DOMAIN branching.branches :
           shownBy(branching.branches[k]) \cap {2, 3} = {}

\* the two lyric lines at p occur again at q and at r, each clear of the
\* other two
IsChorusThrice(p, q, r) ==
    /\ p + 2 <= q
    /\ q + 2 <= r
    /\ r + 2 <= Len(lyricLines)
    /\ \A x \in {p, q, r} : \A j \in 1 .. 2 : lines[x + j].type = "lyric"
    /\ normWindow(p, 2) = normWindow(q, 2)
    /\ normWindow(p, 2) = normWindow(r, 2)

\* C9 (as claimed): when a two-line chorus occurs at three non-overlapping
\* positions, buildBranchingMindmapTree emits exactly one block node for it,
\* carrying repeat count 3 and standing at the first occurrence, and the lines
\* of the second and third occurrences get no node of their own.
C9_ChorusThriceIsOneBlock ==
    variant \in {"mindmap", "skills"} =>
      \A p, q, r \in 0 .. Len(lyricLines) :
        (/\ IsChorusThrice(p, q, r)
         /\ \A x \in 0 .. (p - 1) : normWindow(x, 2) # normWindow(p, 2)) =>
          /\ \E k \in blockBranches :
               /\ branching.branches[k].cover = {p, p + 1}
               /\ branching.branches[k].repeat = 3
               /\ \A m \in blockBranches \ {k} :
                    [ j \in DOMAIN branching.branches[m].children |->
                        branching.branches[m].children[j].label ]
                    # normWindow(p, 2)
          /\ \A k \in DOMAIN branching.branches :
               shownBy(branching.branches[k]) \cap {q, q + 1, r, r + 1} = {}

(***************************************************************************)
(* Properties of groupByStem                                               *)
(***************************************************************************)
\* the n-word stem of each classified line, in lower case; the empty string
\* for a line that has none (a discourse line, a lyric line of fewer words)
stemKeysOf(n) ==
    Strict([ p \in DOMAIN lines |->
               IF hasStemOfLen(lines[p], n) THEN stemKey(lines[p], n) ELSE <<>> ])

\* the positions of the classified lines whose stem is key
stemLinesOf(keys, key) == { p \in DOMAIN keys : keys[p] = key }

\* some stem qualifies: it leads 2 or more of the classified lines, and not
\* all of them
Qualifies(keys) ==
    \E p \in DOMAIN keys :
      /\ keys[p] # <<>>
      /\ Cardinality(stemLinesOf(keys, keys[p])) >= 2
      /\ Cardinality(stemLinesOf(keys, keys[p])) < Len(keys)

\* the stem length the top level is to group by (0 for none) and the stems of
\* that length
grouping ==
    IF Qualifies(stemKeysOf(3)) THEN [n |-> 3, keys |-> stemKeysOf(3)]
    ELSE IF Qualifies(stemKeysOf(2)) THEN [n |-> 2, keys |-> stemKeysOf(2)]
    ELSE [n |-> 0, keys |-> <<>>]

stemNodes == { k \in DOMAIN mindmap.children : mindmap.children[k].hasChildren }

\* classified line p is under a stem node of the top level
IsCaptured(g, p) ==
    /\ g.n # 0
    /\ g.keys[p] # <<>>
    /\ \E k \in stemNodes : mindmap.children[k].label = g.keys[p]

\* C11: groupByStem groups by 3-word stems when a 3-word stem qualifies and by
\* 2-word stems only when none does; every stem node's stem is the lowercased
\* leading 3 or 2 words of at least 2 lyric lines; every line no stem node
\* captures is emitted unchanged as a standalone node (a discourse line with
\* its big and count); below a stem node nothing is grouped.
C11_GroupsByLongestStem ==
    generated =>
      \E g \in { grouping } :
        /\ (g.n # 0) <=> (stemNodes # {})
        /\ \A k \in stemNodes :
             /\ Len(words(mindmap.children[k].label)) = g.n
             /\ Cardinality(stemLinesOf(g.keys, mindmap.children[k].label)) >= 2
             /\ \A j \in DOMAIN mindmap.children[k].children :
                  ~mindmap.children[k].children[j].hasChildren
        /\ \A p \in DOMAIN lines :
             ~IsCaptured(g, p) =>
               \E k \in DOMAIN mindmap.children : mindmap.children[k] = lines[p]

\* a build that groups by a 2-word stem, no 3-word stem qualifying, and keeps a
\* discourse line of count 2 as a standalone node
C11_Witness ==
    /\ generated
    /\ grouping.n = 2
    /\ stemNodes # {}
    /\ \E p \in DOMAIN lines :
         /\ lines[p].type = "discourse"
         /\ lines[p].count = 2
         /\ ~IsCaptured(grouping, p)
         /\ \E k \in DOMAIN mindmap.children : mindmap.children[k] = lines[p]

\* what is left of each classified line after its leading n words: the text
\* shown for it ("(...)" for nothing left)
shownRests(n) ==
    Strict([ p \in DOMAIN lines |->
               LET rest == join(sliceFrom(words(lines[p].label), n), << " " >>)
               IN  IF rest = <<>> THEN EmptySuffix ELSE rest ])

normalized(texts) == Strict([ p \in DOMAIN texts |-> normalizeLine(texts[p]) ])

\* line p is the first line under its stem with its normalized suffix
IsFirstWithSuffix(g, normRests, p) ==
    \A q \in stemLinesOf(g.keys, g.keys[p]) : q < p => normRests[q] # normRests[p]

\* the stem node is built from the lines of its stem as claimed
HasDistinctSuffixChildren(g, rests, normRests, c) ==
    /\ \A i, j \in DOMAIN c.children :
         i # j => normalizeLine(c.children[i].label) # normalizeLine(c.children[j].label)
    /\ \A p \in stemLinesOf(g.keys, c.label) :
         /\ IsFirstWithSuffix(g, normRests, p) <=>
              \E j \in DOMAIN c.children : c.children[j].cover = lines[p].cover
         /\ \A j \in DOMAIN c.children :
              c.children[j].cover = lines[p].cover => c.children[j].label = rests[p]
    /\ \A j \in DOMAIN c.children :
         \E p \in stemLinesOf(g.keys, c.label) : c.children[j].cover = lines[p].cover

\* C12: within every stem node no two children have the same normalized
\* suffix; of the lines sharing the stem exactly the first with a given
\* normalized suffix has a child, labelled with its suffix, or with "(...)"
\* when the suffix is empty.
C12_SuffixChildrenAreDistinct ==
    (generated /\ stemNodes # {}) =>
      \E g \in { grouping } :
        \E rests \in { shownRests(g.n) } :
          \E normRests \in { normalized(rests) } :
            \A k \in stemNodes :
              HasDistinctSuffixChildren(g, rests, normRests, mindmap.children[k])

\* a stem node of three lines with two children: one line repeats the suffix
\* of an earlier one, one has no suffix and shows "(...)"
C12_Witness ==
    /\ generated
    /\ \E k \in stemNodes :
         /\ Cardinality(stemLinesOf(grouping.keys, mindmap.children[k].label)) = 3
         /\ Len(mindmap.children[k].children) = 2
         /\ \E j \in DOMAIN mindmap.children[k].children :
              mindmap.children[k].children[j].label = EmptySuffix

\* the children of a stem node whose labels have the same leading n words, in
\* lower case, as child j's
sharingWith(c, j, n) ==
    { i \in DOMAIN c.children :
        /\ Len(words(c.children[i].label)) >= n
        /\ toLowerCase(join(sliceTo(words(c.children[i].label), n), << " " >>))
           = toLowerCase(join(sliceTo(words(c.children[j].label), n), << " " >>)) }

\* C13 (as claimed): stem grouping is applied again inside each stem node:
\* when at least 2 but not all of its suffix children share a leading 2- or
\* 3-word sequence, those children stand under a nested stem node.
C13_NestedStemNodes ==
    generated =>
      \A k \in stemNodes :
        LET c == mindmap.children[k]
        IN  \A n \in {2, 3} :
              \A j \in DOMAIN c.children :
                (/\ Len(words(c.children[j].label)) >= n
                 /\ Cardinality(sharingWith(c, j, n)) >= 2
                 /\ Cardinality(sharingWith(c, j, n)) < Len(c.children)) =>
                  \E i \in DOMAIN c.children :
                    /\ c.children[i].hasChildren
                    /\ c.children[i].label
                       = toLowerCase(join(sliceTo(words(c.children[j].label), n),
                                          << " " >>))

(***************************************************************************)
(* Properties of isDiscourseMarkerLine and normalizeLine                   *)
(***************************************************************************)
\* the number of repetitions when s is nothing but the marker repeated one or
\* more times with at most one space or hyphen between two repetitions, and 0
\* when it is not
RECURSIVE repsOf(_, _)
repsOf(s, marker) ==
    IF marker = <<>> \/ ~startsWith(s, marker) THEN 0
    ELSE LET rest == sliceFrom(s, Len(marker))
             next == IF rest # <<>> /\ Head(rest) \in {" ", "-"}
                     THEN Tail(rest) ELSE rest
         IN  IF rest = <<>> THEN 1
             ELSE IF repsOf(next, marker) = 0 THEN 0
             ELSE 1 + repsOf(next, marker)

\* the positions of the list's markers that the normalized line is a run of
matchingMarkers ==
    { k \in DOMAIN markerList0 : repsOf(normLine, toLowerCase(markerList0[k])) > 0 }

firstMatching == CHOOSE k \in matchingMarkers : \A j \in matchingMarkers : k <= j

\* C14: isDiscourseMarkerLine returns {marker, count} exactly when the
\* normalized line is one marker of the list repeated one or more times with
\* an optional space or hyphen between repetitions; the marker is the first of
\* the list that matches and count the number of repetitions; otherwise it
\* returns null.
C14_DetectsMarkerRuns ==
    variant = "isDiscourseMarkerLine" =>
      IF matchingMarkers = {}
      THEN detected = NoMatch
      ELSE detected = [found |-> TRUE,
                       marker |-> markerList0[firstMatching],
                       count |-> repsOf(normLine,
                                        toLowerCase(markerList0[firstMatching]))]

\* a detection where two markers of the list match, on a line written with a
\* hyphen and a capital
C14_Witness ==
    /\ variant = "isDiscourseMarkerLine"
    /\ Cardinality(matchingMarkers) = 2
    /\ detected.found
    /\ detected.marker = markerList0[1]
    /\ detected.count >= 2
    /\ "-" \in Range(theLine)
    /\ "H" \in Range(theLine)

\* C15: for every marker m of the default list and every n >= 1, the line of
\* n repetitions of m separated by spaces, by hyphens or by nothing is
\* detected as {marker: m, count: n}, and detection on the normalized line
\* gives the same result.
C15_SeparatorStyleIsIrrelevant ==
    (variant = "isDiscourseMarkerLine" /\ markerList0 = DISCOURSE_MARKERS) =>
      \A m \in Range(DISCOURSE_MARKERS) : \A n \in 1 .. MaxReps : \A sep \in Separators :
        theLine = runOf(m, n, sep) =>
          /\ detected = [found |-> TRUE, marker |-> m, count |-> n]
          /\ isDiscourseMarkerLine(normLine, DISCOURSE_MARKERS) = detected

\* a detection on three repetitions of a default marker written with nothing
\* between them
C15_Witness ==
    /\ variant = "isDiscourseMarkerLine"
    /\ markerList0 = DISCOURSE_MARKERS
    /\ \E m \in Range(DISCOURSE_MARKERS) : theLine = runOf(m, 3, <<>>)
    /\ detected.count = 3

(***************************************************************************)
(* Properties of the classification                                        *)
(***************************************************************************)
\* the detections of the retained lines, in order
detectionsOf(raw) ==
    Strict([ r \in DOMAIN raw |-> isDiscourseMarkerLine(raw[r], DISCOURSE_MARKERS) ])

\* the sum of the counts detected at the 0-based positions lo .. hi
RECURSIVE sumOfCounts(_, _, _)
sumOfCounts(dets, lo, hi) ==
    IF lo > hi THEN 0 ELSE dets[lo + 1].count + sumOfCounts(dets, lo + 1, hi)

\* classified line p is one maximal run of retained lines that match its
\* marker, with the sum of their counts
IsMaximalRun(dets, p) ==
    LET lo == lines[p].idx
        hi == lo + Cardinality(lines[p].cover) - 1
        marker == lines[p].label
    IN  /\ lines[p].cover = lo .. hi
        /\ \A r \in lo .. hi : dets[r + 1].found /\ dets[r + 1].marker = marker
        /\ lo > 0 => ~(dets[lo].found /\ dets[lo].marker = marker)
        /\ hi < Len(rawLines) - 1 =>
             ~(dets[hi + 2].found /\ dets[hi + 2].marker = marker)
        /\ lines[p].count = sumOfCounts(dets, lo, hi)

\* C16: every maximal run of consecutive retained lines matching the same
\* marker is exactly one discourse classified line, whose count is the sum of
\* the counts of the run's lines; no two adjacent classified lines are
\* discourse lines with the same marker.
C16_MarkerRunsAreMerged ==
    generated =>
      \E dets \in { detectionsOf(rawLines) } :
        /\ \A p \in DOMAIN lines :
             lines[p].type = "discourse" => IsMaximalRun(dets, p)
        /\ \A r \in 0 .. (Len(rawLines) - 1) :
             dets[r + 1].found =>
               Cardinality({ p \in DOMAIN lines :
                               /\ lines[p].type = "discourse"
                               /\ lines[p].label = dets[r + 1].marker
                               /\ r \in lines[p].cover }) = 1
        /\ \A p \in DOMAIN lines :
             (p > 1 /\ lines[p].type = "discourse" /\ lines[p - 1].type = "discourse")
               => lines[p].label # lines[p - 1].label

\* a classification that merged two marker lines into one discourse line of
\* count 8 and kept the next line, of another marker, as a discourse line of
\* its own
C16_Witness ==
    /\ generated
    /\ \E p \in DOMAIN lines :
         /\ p < Len(lines)
         /\ lines[p].type = "discourse"
         /\ Cardinality(lines[p].cover) = 2
         /\ lines[p].count = 8
         /\ lines[p + 1].type = "discourse"
         /\ lines[p + 1].label # lines[p].label


\* every node of the list, at every depth, has a label that is a string
RECURSIVE allLabelled(_)
allLabelled(nodes) ==
    \A k \in DOMAIN nodes :
        /\ nodes[k].label # NullLabel
        /\ nodes[k].hasChildren => allLabelled(nodes[k].children)

\* C17: every node of the tree buildMindmapTree returns, the root and every
\* node below it at every depth, has a string label; no node is emitted with
\* a missing or null label
C17_EveryNodeHasALabel ==
    generated => mindmap.label # NullLabel /\ allLabelled(mindmap.children)


(***************************************************************************)
(* Properties of normalizeLine                                             *)
(***************************************************************************)
\* the letters a-z and A-Z, the digits, the apostrophe and the space
LettersDigitsApostropheSpace ==
    Range(UpperLetters) \cup Range(LowerLetters) \cup Digits \cup {"'", " "}

\* the lower-case form of one character
lowerCaseOf(c) ==
    IF \E i \in DOMAIN UpperLetters : UpperLetters[i] = c
    THEN LowerLetters[CHOOSE i \in DOMAIN UpperLetters : UpperLetters[i] = c]
    ELSE c

\* norm is the part lo..hi of kept in lower case, everything before lo and
\* after hi being spaces and the part neither starting nor ending with one
IsTrimmedLowerCase(kept, norm, lo, hi) ==
    /\ \A i \in 1 .. (lo - 1) : kept[i] = " "
    /\ \A i \in (hi + 1) .. Len(kept) : kept[i] = " "
    /\ lo <= hi => kept[lo] # " " /\ kept[hi] # " "
    /\ Len(norm) = (IF lo <= hi THEN hi - lo + 1 ELSE 0)
    /\ \A i \in 1 .. Len(norm) : norm[i] = lowerCaseOf(kept[lo + i - 1])

RECURSIVE workOf(_)
workOf(nodes) ==
    IF nodes = <<>> THEN 1
    ELSE (IF Head(nodes).type # "" THEN 2 ELSE 0)
         + (IF Head(nodes).hasChildren THEN workOf(Head(nodes).children) ELSE 0)
         + workOf(Tail(nodes))

\* the work of all pending calls
RECURSIVE pendingWork(_)
pendingWork(calls) ==
    IF calls = <<>> THEN 0 ELSE workOf(Head(calls)) + pendingWork(Tail(calls))

\* C20: for every input string buildMindmapTree comes to its end and returns
\* a tree without raising: it never raises, every call of buildHybridTree
\* leaves less pending work than it found, so that the recursion reaches a
\* list of 0 or 1 nodes or a level without a qualifying stem, and with no
\* call pending the tree is returned
C20_BuildTerminates ==
    /\ pc # "raised"
    /\ (pc = "running" /\ stack # <<>>) =>
           /\ ~throwsOn(Head(stack))
           /\ pendingWork(afterCall(stack)) < pendingWork(stack)
    /\ pc = "returned" =>
           /\ stack = <<>>
           /\ generated
           /\ mindmap = buildMindmapTree(lyrics)

\* a recursive call of buildHybridTree on the children of a stem node is
\* pending
C20_Witness ==
    /\ pc = "running"
    /\ Len(stack) >= 1
    /\ Head(stack) # lines
    /\ Len(Head(stack)) >= 2


(***************************************************************************)
(* Properties of the order of acceptance in findRepeatedBlocks             *)
(***************************************************************************)
\* the candidate occurrences: the << start, length >> of every window whose
\* normalized text stands at two or more start positions
candidateOccurrences ==
    { c \in (0 .. Len(lyricLines)) \X (minBlockLen .. maxBlockLen) :
        /\ c[1] + c[2] <= Len(lyricLines)
        /\ Cardinality(occurrencesOf(normWindow(c[1], c[2]))) >= 2 }

\* start s lies inside a span of the set that starts before it
coveredBy(spans, s) == \E a \in spans : a[1] < s /\ s < a[1] + a[2]

\* spans is what the greedy pass over the candidates in ascending start order
\* accepts, in whatever order the candidates of one start are visited: of the
\* candidates at a start clear of the spans accepted before, one is accepted;
\* at a covered start none is
IsGreedyInStartOrder(spans) ==
    /\ spans \subseteq candidateOccurrences
    /\ \A s \in { c[1] : c \in candidateOccurrences } :
         IF coveredBy(spans, s)
         THEN \A a \in spans : a[1] # s
         ELSE Cardinality({ a \in spans : a[1] = s }) = 1

\* C21: the blocks findRepeatedBlocks accepts are those of the greedy
\* procedure that visits all candidate occurrences in ascending start-index
\* order and accepts an occurrence if and only if its span overlaps no span
\* accepted before
C21_AcceptsInStartOrder ==
    variant # "none" =>
        IsGreedyInStartOrder({ << repeatedBlocks[k].start, repeatedBlocks[k].length >> :
                                 k \in DOMAIN repeatedBlocks })


\* C22: for every input of n lines the blocks findRepeatedBlocks returns are
\* half-open spans [start, end) with end = start + length, 2 <= length <= 6,
\* 0 <= start and end <= n, listed in strictly ascending start order and
\* pairwise non-overlapping; an input of fewer than 2 lines yields no block
C22_BlocksAreOrderedDisjointSpans ==
    variant # "none" =>
        /\ \A k \in DOMAIN repeatedBlocks :
             /\ repeatedBlocks[k].end = repeatedBlocks[k].start + repeatedBlocks[k].length
             /\ repeatedBlocks[k].length >= 2
             /\ repeatedBlocks[k].length <= 6
             /\ repeatedBlocks[k].start >= 0
             /\ repeatedBlocks[k].end <= Len(lyricLines)
        /\ \A k \in 1 .. (Len(repeatedBlocks) - 1) :
             repeatedBlocks[k].end <= repeatedBlocks[k + 1].start
        /\ \A j, k \in DOMAIN repeatedBlocks :
             j # k => \/ repeatedBlocks[j].end <= repeatedBlocks[k].start
                      \/ repeatedBlocks[k].end <= repeatedBlocks[j].start
        /\ Len(lyricLines) < 2 => repeatedBlocks = <<>>

\* two or more blocks were returned and a candidate occurrence that starts
\* before the end of a returned block and ends after its start was left out
C22_Witness ==
    /\ variant # "none"
    /\ Len(repeatedBlocks) >= 2
    /\ \E c \in candidateOccurrences :
         /\ \A k \in DOMAIN repeatedBlocks : repeatedBlocks[k].start # c[1]
         /\ \E k \in DOMAIN repeatedBlocks :
              /\ c[1] < repeatedBlocks[k].start
              /\ c[1] + c[2] > repeatedBlocks[k].start


(***************************************************************************)
(* Properties of the precedence in buildBranchingMindmapTree               *)
(***************************************************************************)
\* the branches that stand for the classified line at 0-based position i as
\* a discourse branch { label: marker, big: true, count }
discourseBranchesOf(i) ==
    { k \in DOMAIN branching.branches :
        /\ branching.branches[k].kind = "discourse"
        /\ branching.branches[k].cover = {i}
        /\ branching.branches[k].label = lines[i + 1].label
        /\ branching.branches[k].big
        /\ branching.branches[k].count = lines[i + 1].count }

\* C23: in buildBranchingMindmapTree discourse has precedence over repeated
\* blocks: every discourse classified line yields exactly one discourse
\* branch with its marker and count, and no discourse line is shown inside a
\* repeated-block branch or passed over because a block spans its index
C23_DiscourseBeforeBlocks ==
    (generated /\ variant \in {"mindmap", "skills"}) =>
        \A i \in 0 .. (Len(lines) - 1) :
            lines[i + 1].type = "discourse" =>
                /\ Cardinality(discourseBranchesOf(i)) = 1
                /\ \A k \in blockBranches : i \notin shownBy(branching.branches[k])


\* C24: in buildBranchingMindmapTree no classified line is represented in
\* more than one emitted branch: a line shown as a child of a stem branch,
\* inside a repeated-block branch or as a standalone branch is not shown
\* again by a later branch
C24_NoLineInTwoBranches ==
    (generated /\ variant \in {"mindmap", "skills"}) =>
        \A i \in 0 .. (Len(lines) - 1) :
            Cardinality({ k \in DOMAIN branching.branches :
                            i \in shownBy(branching.branches[k]) }) <= 1


(***************************************************************************)
(* Properties of the order of the root's children                          *)
(***************************************************************************)
\* the positions in rawLines a top-level node stands for: its own, or those
\* of its suffix children
coveredLines(node) ==
    node.cover \cup UNION { node.children[j].cover : j \in DOMAIN node.children }

\* the first input line a top-level node stands for
firstCoveredLine(node) ==
    CHOOSE r \in coveredLines(node) : \A q \in coveredLines(node) : r <= q

\* C25: buildMindmapTree keeps the input order among the root's children: of
\* any two top-level nodes the one whose first covered input line comes
\* earlier is listed first, a stem node standing at its first member line
\* and a discourse node at the position of its run
C25_ChildrenInInputOrder ==
    generated =>
        \A j, k \in DOMAIN mindmap.children :
            j < k => firstCoveredLine(mindmap.children[j])
                       < firstCoveredLine(mindmap.children[k])


(***************************************************************************)
(* Properties of parseLyricsToNodes                                        *)
(***************************************************************************)
\* node p of the parse is the lyric node of one retained line that matches no
\* marker
IsLyricNodeOfItsLine(dets, p) ==
    /\ Cardinality(lines[p].cover) = 1
    /\ \A r \in lines[p].cover :
         /\ ~dets[r + 1].found
         /\ lines[p].text = rawLines[r + 1]
         /\ lines[p].origIndex = r

\* node p of the parse is the discourse node of one maximal run of lines that
\* match its marker, the first of them matching no earlier marker of the list
IsDiscourseNodeOfItsRun(dets, p) ==
    \E lo \in lines[p].cover :
        LET hi == lo + Cardinality(lines[p].cover) - 1
            matches(r) == isDiscourseMarkerLine(rawLines[r + 1],
                                                << lines[p].marker >>)
        IN  /\ lines[p].cover = lo .. hi
            /\ dets[lo + 1].found /\ dets[lo + 1].marker = lines[p].marker
            /\ \A r \in lo .. hi : matches(r).found
            /\ hi < Len(rawLines) - 1 => ~matches(hi + 1).found
            /\ lines[p].count = dets[lo + 1].count
                 + (IF lo < hi
                    THEN runCount(rawLines, lines[p].marker, lo + 2, hi + 2)
                    ELSE 0)

\* C26: parseLyricsToNodes returns, in input order, exactly one lyric node
\* per retained lyric line and exactly one discourse node per maximal
\* same-marker run of discourse lines; no retained line is omitted,
\* duplicated or reordered, whether or not it repeats an earlier line
C26_ParseKeepsEveryLine ==
    (variant = "parse" /\ pc # "idle") =>
        /\ pc = "returned"
        /\ \E dets \in { detectionsOf(rawLines) } :
             /\ \A p \in DOMAIN lines :
                  IF lines[p].type = "lyric"
                  THEN IsLyricNodeOfItsLine(dets, p)
                  ELSE IsDiscourseNodeOfItsRun(dets, p)
             /\ \A r \in 0 .. (Len(rawLines) - 1) :
                  Cardinality({ p \in DOMAIN lines : r \in lines[p].cover }) = 1
             /\ \A p, q \in DOMAIN lines :
                  p < q => \A r \in lines[p].cover, t \in lines[q].cover : r < t


(***************************************************************************)
(* Properties of ComboManager                                              *)
(***************************************************************************)
\* the grabs made since the last reset among the first n calls, in order
RECURSIVE grabsSinceReset(_)
grabsSinceReset(n) ==
    IF n = 0 \/ history[n].fn = "reset" THEN <<>>
    ELSE Append(grabsSinceReset(n - 1), history[n].type)

\* how many grabs at the end of the list have the type of the last one
RECURSIVE trailingSame(_)
trailingSame(types) ==
    IF types = <<>> THEN 0
    ELSE IF Len(types) >= 2 /\ types[Len(types) - 1] = types[Len(types)]
         THEN 1 + trailingSame(SubSeq(types, 1, Len(types) - 1))
         ELSE 1

\* C27: after any sequence of onGrab and reset calls streak is the number of
\* consecutive onGrab calls of the same type at the end of the sequence since
\* the last reset, 0 with lastType null when there was no grab since
\* construction or reset, and lastType is the type of the most recent grab
C27_StreakCountsTrailingGrabs ==
    variant \in {"none", "combo"} =>
        \E types \in { grabsSinceReset(Len(history)) } :
            /\ streak = trailingSame(types)
            /\ lastType = (IF types = <<>> THEN Null ELSE types[Len(types)])

\* two grabs of one type, a reset, then one grab of another type
C27_Witness ==
    /\ variant = "combo"
    /\ Len(history) = 4
    /\ history[1].fn = "onGrab" /\ history[2].fn = "onGrab"
    /\ history[1].type = history[2].type
    /\ history[3].fn = "reset"
    /\ history[4].fn = "onGrab" /\ history[4].type # history[1].type
    /\ streak = 1
    /\ lastType = history[4].type

\* C28: onGrab returns 1 and does not call onCombo when the resulting streak
\* is below 2; when the resulting streak s is 2 or more it calls onCombo
\* exactly once with (type, s, m) and returns m = 1 + 0.5 * (s - 1), so the
\* multiplier grows by 0.5 with each further grab of the type and is back at 1
\* on the first grab after a change of type or a reset (values in halves)
C28_BonusGrowsByHalf ==
    \A n \in DOMAIN history :
        history[n].fn = "onGrab" =>
            \E s \in { trailingSame(grabsSinceReset(n)) } :
                IF s < 2
                THEN history[n].returned = 2 /\ history[n].onCombo = <<>>
                ELSE /\ history[n].onCombo = << << history[n].type, s, 2 + (s - 1) >> >>
                     /\ history[n].returned = 2 + (s - 1)

\* three grabs of one type, returning 1, 1.5 and 2, then a grab of another
\* type, returning 1
C28_Witness ==
    /\ Len(history) = 4
    /\ \A n \in 1 .. 4 : history[n].fn = "onGrab"
    /\ history[1].type = history[2].type /\ history[2].type = history[3].type
    /\ history[4].type # history[3].type
    /\ history[1].returned = 2 /\ history[2].returned = 3
    /\ history[3].returned = 4 /\ history[4].returned = 2
    /\ Len(history[3].onCombo) = 1


(***************************************************************************)
(* Properties of Skill                                                     *)
(***************************************************************************)
\* the calls among the first n on which onActivate ran
effectiveUpTo(n) == { k \in 1 .. n : history[k].onActivate }

\* the last call before call n on which onActivate ran, 0 if there is none
lastEffectiveBefore(n) ==
    IF effectiveUpTo(n - 1) = {} THEN 0
    ELSE CHOOSE k \in effectiveUpTo(n - 1) : \A j \in effectiveUpTo(n - 1) : j <= k

\* the times of the first n calls never decrease
clockNonDecreasing(n) ==
    \A j, k \in 1 .. n : j < k => history[j].now <= history[k].now

\* C29: in any sequence of activate(now) calls onActivate runs on a call
\* exactly when now minus the time of the last effective activation is more
\* than cooldown * 1000 (the first call always runs); with a non-decreasing
\* clock any two effective activations are more than the cooldown apart; a
\* rejected call leaves lastUsed and remaining as they were
C29_ActivatesOnlyAfterCooldown ==
    variant = "skill" =>
        \A n \in DOMAIN history :
            \E last \in { lastEffectiveBefore(n) } :
                /\ history[n].onActivate <=>
                       \/ last = 0
                       \/ history[n].now - history[last].now > cooldown * 1000
                /\ (n = Len(history) /\ ~history[n].onActivate) =>
                       /\ lastUsed = history[n].lastUsed
                       /\ remaining = history[n].remaining
                /\ clockNonDecreasing(n) =>
                       \A j, k \in effectiveUpTo(n) :
                           j < k => history[k].now - history[j].now > cooldown * 1000

\* a skill with a one second cooldown used at 0, refused exactly one second
\* later and used again one millisecond after that
C29_Witness ==
    /\ variant = "skill"
    /\ cooldown = 1
    /\ Len(history) = 3
    /\ history[1].now = 0 /\ history[1].onActivate
    /\ history[2].now = 1000 /\ ~history[2].onActivate
    /\ history[3].now = 1001 /\ history[3].onActivate
    /\ lastUsed = timeAt(1001)
    /\ remaining = 1

=============================================================================
